---- MODULE Spec2Model ----
(***************************************************************************)
(* Textify "Code Map" (src/tools/code_map.py): the outline extractor       *)
(* (CodeAnalyzer / ASTAnalyzer), the NavigationState cache and the         *)
(* CodeRenderer filter / active-item resolution.                           *)
(*                                                                         *)
(* A text is the list text.split('\n') of its lines.  A line is a record   *)
(* [indent, form, name, value]: indent is the number of leading blanks,    *)
(* form is the shape of the stripped line, name the identifier it          *)
(* introduces and value the text after the `=` of an assignment, both      *)
(* sequences of characters:                                                *)
(*    "class"    class <name>:          "def"     def <name>():            *)
(*    "baddef"   def <name>(:           "ann"     <name>: int              *)
(*    "assign"   <name> = <value>       "pass"    pass                     *)
(*    "comment"  # ...                  "blank"   (empty line)             *)
(*    "quote"    """  (opens a triple-quoted string, or closes the open    *)
(*                     one; the lines in between are its content)          *)
(*    "deep"     <name> = a+a+...+a, an expression nested deeper than the  *)
(*               recursion limit of the parser                             *)
(* The outline is an arena: nodes is the sequence of CodeItem objects in   *)
(* creation order, an item is referred to by its index, parent 0 is None.  *)
(***************************************************************************)
EXTENDS Integers, Sequences, FiniteSets, TLC

\* The longest text of the enumerated inputs, in lines
MaxLines == 3

\* CodeItem.end_line = None
NoneLine == 0

\* CodeItem.value_preview = None (a preview is a sequence of characters)
NoPreview == <<"None">>

\* parent = None / parent_type = None / space_data.text = None
NoItem == 0
NoType == "None"
NoText == "<none>"

-----------------------------------------------------------------------------
(* Characters and names *)

ToLower == [A |-> "a", B |-> "b", C |-> "c", E |-> "e", F |-> "f", L |-> "l",
            N |-> "n", O |-> "o", S |-> "s", T |-> "t", U |-> "u", V |-> "v",
            X |-> "x", Y |-> "y"]
UpperChars == DOMAIN ToLower
LowerChars == {"a", "b", "c", "d", "e", "f", "g", "k", "l", "n", "o", "p", "r",
               "s", "t", "u", "v", "x", "y"}
Digits == {"0", "1", "2", "3", "4", "5", "6", "7", "8", "9"}

\* str.lower() on one character
LowerChar(c) == IF c \in UpperChars THEN ToLower[c] ELSE c

\* str.lower()
Lower(s) == [i \in 1..Len(s) |-> LowerChar(s[i])]

\* str.isupper(): at least one cased character and no lowercase one
IsUpper(s) ==
    /\ \E i \in 1..Len(s) : s[i] \in UpperChars
    /\ \A i \in 1..Len(s) : s[i] \notin LowerChars

\* `sub in s` on strings
Contains(s, sub) ==
    \E k \in 0..(Len(s) - Len(sub)) :
        \A i \in 1..Len(sub) : s[k + i] = sub[i]

-----------------------------------------------------------------------------
(* Lines *)

\* <name> = <value>
MkAssign(ind, name, value) ==
    [indent |-> ind, form |-> "assign", name |-> name, value |-> value]

\* every other line; an assignment built this way reads <name> = 1
MkLine(ind, form, name) ==
    [indent |-> ind, form |-> form, name |-> name,
     value |-> IF form = "assign" THEN <<"1">> ELSE <<>>]

BlankLine == MkLine(0, "blank", <<>>)

\* line.strip() is empty
IsBlank(line) == line.form = "blank"

\* stripped.startswith('#')
IsComment(line) == line.form = "comment"

\* CodeAnalyzer._get_indent_level: len(line) - len(line.lstrip())
GetIndentLevel(line) == line.indent

\* CodePatterns: which compiled pattern matches the stripped line
ClassPatternMatches(line) == line.form = "class"
FunctionPatternMatches(line) == line.form \in {"def", "baddef"}
PropertyPatternMatches(line) == line.form = "ann"
\* ^\s*([A-Z_][A-Z0-9_]*)\s*=
ConstantPatternMatches(line) ==
    /\ line.form \in {"assign", "deep"}
    /\ \A i \in 1..Len(line.name) : line.name[i] \in UpperChars \cup {"_"}
\* ^\s*([A-Z_][A-Z0-9_]*|[a-zA-Z_]\w*)\s*=\s*
VariablePatternMatches(line) == line.form \in {"assign", "deep"}

\* CodeAnalyzer._parse_line: the kind of the CodeItem the line yields, NoType
\* when it yields none.
\* _parse_line where a def is a method under a class only
ParseLineMethodInClass(line, parent_type) ==
    IF ClassPatternMatches(line) THEN "class"
    ELSE IF FunctionPatternMatches(line)
         THEN (IF parent_type = "class" THEN "method" ELSE "function")
    ELSE IF PropertyPatternMatches(line) THEN "property"
    ELSE IF parent_type = NoType /\ ConstantPatternMatches(line) /\ IsUpper(line.name)
         THEN "constant"
    ELSE IF parent_type = NoType /\ VariablePatternMatches(line) /\ ~IsUpper(line.name)
         THEN "variable"
    ELSE NoType

ParseLine(line, parent_type) ==
    IF ClassPatternMatches(line) THEN "class"
    ELSE IF FunctionPatternMatches(line)
         THEN (IF parent_type \in {"class", "function"} THEN "method" ELSE "function")
    ELSE IF PropertyPatternMatches(line) THEN "property"
    ELSE IF parent_type = NoType /\ ConstantPatternMatches(line) /\ IsUpper(line.name)
         THEN "constant"
    ELSE IF parent_type = NoType /\ VariablePatternMatches(line) /\ ~IsUpper(line.name)
         THEN "variable"
    ELSE NoType

\* value_part[:50] of CodeAnalyzer._parse_line
PreviewLen == 50

Ellipsis == <<".", ".", ".">>

\* s[:n]
Take(s, n) == SubSeq(s, 1, IF Len(s) < n THEN Len(s) ELSE n)

\* value_part[:50] + ("..." if len(value_part) > 50 else "")
ValuePreview(value_part) ==
    Take(value_part, PreviewLen)
        \o (IF Len(value_part) > PreviewLen THEN Ellipsis ELSE <<>>)

\* CodeAnalyzer._parse_line: the value_preview of the CodeItem of that kind;
\* value_part is full_line.split('=', 1)[1].strip()
ParseLinePreview(line, kind) ==
    IF kind \in {"constant", "variable"} THEN ValuePreview(line.value)
    ELSE NoPreview

-----------------------------------------------------------------------------
(* CodeItem and the indentation-stack pass *)

CodeItem(name, item_type, line_number, indent_level) ==
    [name |-> name, item_type |-> item_type, line_number |-> line_number,
     indent_level |-> indent_level, parent |-> NoItem, children |-> <<>>,
     end_line |-> NoneLine, value_preview |-> NoPreview]

\* add_child as children.insert(0, child): the newest child comes first
AddChildFirst(nodes, p, id) ==
    [nodes EXCEPT ![id].parent = p, ![p].children = <<id>> \o @]

\* CodeItem.add_child, on the arena: child id gets parent p, p gets the child
AddChild(nodes, p, id) ==
    [nodes EXCEPT ![id].parent = p, ![p].children = Append(@, id)]

\* while stack and stack[-1].indent_level > indent: stack.pop()
RECURSIVE PopStackStrict(_, _, _)
PopStackStrict(nodes, stack, indent) ==
    IF stack # <<>> /\ nodes[stack[Len(stack)]].indent_level > indent
    THEN PopStackStrict(nodes, SubSeq(stack, 1, Len(stack) - 1), indent)
    ELSE stack

\* while stack and stack[-1].indent_level >= indent: stack.pop()
RECURSIVE PopStack(_, _, _)
PopStack(nodes, stack, indent) ==
    IF stack # <<>> /\ nodes[stack[Len(stack)]].indent_level >= indent
    THEN PopStack(nodes, SubSeq(stack, 1, Len(stack) - 1), indent)
    ELSE stack

\* The loop with every classified node pushed on the stack
RECURSIVE AnalyzeLoopPushAll(_, _, _, _, _)
AnalyzeLoopPushAll(lines, i, nodes, items, stack) ==
    IF i > Len(lines) THEN [nodes |-> nodes, items |-> items]
    ELSE IF IsBlank(lines[i]) \/ IsComment(lines[i])
    THEN AnalyzeLoopPushAll(lines, i + 1, nodes, items, stack)
    ELSE
        LET indent == GetIndentLevel(lines[i])
            st == PopStack(nodes, stack, indent)
            parent_type == IF st # <<>> THEN nodes[st[Len(st)]].item_type ELSE NoType
            kind == ParseLine(lines[i], parent_type)
            id == Len(nodes) + 1
            added == Append(nodes,
                        [CodeItem(lines[i].name, kind, i, indent)
                            EXCEPT !.value_preview = ParseLinePreview(lines[i], kind)])
        IN  IF kind = NoType THEN AnalyzeLoopPushAll(lines, i + 1, nodes, items, st)
            ELSE AnalyzeLoopPushAll(lines, i + 1,
                    IF st # <<>> THEN AddChild(added, st[Len(st)], id) ELSE added,
                    IF st # <<>> THEN items ELSE Append(items, id),
                    Append(st, id))

\* The loop of CodeAnalyzer.analyze_text over lines i..len(lines)
RECURSIVE AnalyzeLoop(_, _, _, _, _)
AnalyzeLoop(lines, i, nodes, items, stack) ==
    IF i > Len(lines) THEN [nodes |-> nodes, items |-> items]
    ELSE IF IsBlank(lines[i]) \/ IsComment(lines[i])
    THEN AnalyzeLoop(lines, i + 1, nodes, items, stack)
    ELSE
        LET indent == GetIndentLevel(lines[i])
            st == PopStack(nodes, stack, indent)
            parent_type == IF st # <<>> THEN nodes[st[Len(st)]].item_type ELSE NoType
            kind == ParseLine(lines[i], parent_type)
            id == Len(nodes) + 1
            added == Append(nodes,
                        [CodeItem(lines[i].name, kind, i, indent)
                            EXCEPT !.value_preview = ParseLinePreview(lines[i], kind)])
        IN  IF kind = NoType THEN AnalyzeLoop(lines, i + 1, nodes, items, st)
            ELSE AnalyzeLoop(lines, i + 1,
                    IF st # <<>> THEN AddChild(added, st[Len(st)], id) ELSE added,
                    IF st # <<>> THEN items ELSE Append(items, id),
                    IF kind \in {"class", "function", "method"}
                    THEN Append(st, id) ELSE st)

-----------------------------------------------------------------------------
(* ast.parse on the line language *)

\* Line i lies inside a triple-quoted string opened on an earlier line (the
\* line that closes the string included)
InString(lines, i) ==
    Cardinality({j \in 1..(i - 1) : lines[j].form = "quote"}) % 2 = 1

\* Lines on which the tokenizer starts a statement (comments, blank lines and
\* the lines of a string opened earlier start none)
IsStmt(lines, i) ==
    ~InString(lines, i) /\ ~IsBlank(lines[i]) /\ ~IsComment(lines[i])
IsHeader(line) == line.form \in {"class", "def", "baddef"}

\* end_lineno of the statement that starts on line k: a string statement ends
\* on the line that closes it
StmtEnd(lines, k) ==
    IF lines[k].form = "quote"
    THEN CHOOSE m \in (k + 1)..Len(lines) :
            /\ lines[m].form = "quote"
            /\ \A n \in (k + 1)..(m - 1) : lines[n].form # "quote"
    ELSE k

\* The indentation stack of the tokenizer after the statements of lines 1..i,
\* <<-1>> once the text is rejected (IndentationError / SyntaxError).
RECURSIVE IndentStack(_, _)
IndentStack(lines, i) ==
    IF i = 0 THEN <<0>>
    ELSE LET prev == IndentStack(lines, i - 1)
             line == lines[i]
             top == prev[Len(prev)]
             \* the last statement before line i opened a block
             opened == \E j \in 1..(i - 1) :
                          /\ IsStmt(lines, j) /\ IsHeader(lines[j])
                          /\ \A k \in (j + 1)..(i - 1) : ~IsStmt(lines, k)
         IN  IF prev = <<-1>> THEN prev
             ELSE IF ~IsStmt(lines, i) THEN prev
             ELSE IF line.form = "baddef" THEN <<-1>>
             ELSE IF opened
                  THEN (IF line.indent > top THEN Append(prev, line.indent) ELSE <<-1>>)
             ELSE IF line.indent > top THEN <<-1>>
             ELSE IF \E k \in 1..Len(prev) : prev[k] = line.indent
                  THEN SubSeq(prev, 1, CHOOSE k \in 1..Len(prev) : prev[k] = line.indent)
             ELSE <<-1>>

\* The tokenizer and the grammar accept the text (no SyntaxError)
SyntaxOk(lines) ==
    /\ IndentStack(lines, Len(lines)) # <<-1>>
    \* every triple-quoted string is terminated
    /\ Cardinality({j \in 1..Len(lines) : lines[j].form = "quote"}) % 2 = 0
    /\ \A j \in 1..Len(lines) :
          (IsStmt(lines, j) /\ IsHeader(lines[j]))
              => \E k \in (j + 1)..Len(lines) : IsStmt(lines, k)

\* ast.parse(text) raises RecursionError ("maximum recursion depth exceeded
\* during ast construction"): the text is accepted, then the tree of one of
\* its statements is too deep to build
RaisesRecursionError(lines) ==
    /\ SyntaxOk(lines)
    /\ \E i \in 1..Len(lines) : IsStmt(lines, i) /\ lines[i].form = "deep"

\* ast.parse(text) returns a tree
Parses(lines) == SyntaxOk(lines) /\ ~RaisesRecursionError(lines)

\* node.end_lineno of the ClassDef / FunctionDef that starts on line j: the last
\* statement of its block
EndLineno(lines, j) ==
    LET stop == {k \in (j + 1)..Len(lines) :
                    IsStmt(lines, k) /\ lines[k].indent <= lines[j].indent}
        last == IF stop = {} THEN Len(lines)
                ELSE (CHOOSE k \in stop : \A m \in stop : k <= m) - 1
        body == {k \in (j + 1)..last : IsStmt(lines, k)}
    IN  IF body = {} THEN j
        ELSE StmtEnd(lines, CHOOSE k \in body : \A m \in body : m <= k)

-----------------------------------------------------------------------------
(* ASTAnalyzer *)

\* ASTAnalyzer._get_end_line: node.end_lineno (always set by the parser)
GetEndLine(lines, j) == EndLineno(lines, j)

\* The right-hand side is one string literal "..." / one integer literal, the
\* two shapes for which the parser builds an ast.Constant
IsStringLiteral(value) ==
    /\ Len(value) >= 2
    /\ value[1] = "\"" /\ value[Len(value)] = "\""
    /\ \A i \in 2..(Len(value) - 1) : value[i] # "\""
IsIntLiteral(value) ==
    /\ Len(value) >= 1
    /\ \A i \in 1..Len(value) : value[i] \in Digits
    /\ (Len(value) > 1 => value[1] # "0")

\* str(value_node.value): the characters between the quotes of a string
\* literal, the digits of an integer
ConstantStr(value) ==
    IF IsStringLiteral(value) THEN SubSeq(value, 2, Len(value) - 1) ELSE value

\* str(value_node.value)[:50] of ASTAnalyzer._extract_value_preview
AstPreviewLen == 50

\* ASTAnalyzer._extract_value_preview
ExtractValuePreview(value) ==
    IF IsStringLiteral(value) \/ IsIntLiteral(value)
    THEN Take(ConstantStr(value), AstPreviewLen)
    ELSE NoPreview

\* ASTAnalyzer._process_ast: ast.walk meets a ClassDef / FunctionDef for every
\* class / def statement and an Assign for every assignment statement; the
\* item found by _find_by_lineno is the one created for that line.  `x: int`
\* is an AnnAssign, which neither branch handles, and the lines of a string
\* are no statements.
ProcessAst(nodes, lines) ==
    [id \in 1..Len(nodes) |->
        LET item == nodes[id]
            line == lines[item.line_number]
        IN  IF ~IsStmt(lines, item.line_number) THEN item
            ELSE IF line.form \in {"class", "def"}
            THEN [item EXCEPT !.end_line = GetEndLine(lines, item.line_number)]
            ELSE IF line.form = "assign"
                    /\ item.item_type \in {"property", "variable", "constant"}
            THEN [item EXCEPT !.end_line = item.line_number,
                              !.value_preview = ExtractValuePreview(line.value)]
            ELSE item]

\* _guess_end_line that counts the line that ends the block into the block
GuessEndLineInclusive(item, lines) ==
    LET start == item.line_number - 1
        base_indent == lines[start + 1].indent
        \* 0-based indexes i of range(start + 1, len(lines)) that return
        hits == {i \in (start + 1)..(Len(lines) - 1) :
                    ~IsBlank(lines[i + 1]) /\ lines[i + 1].indent <= base_indent}
    IN  IF start >= Len(lines) THEN item.line_number
        ELSE IF hits = {} THEN Len(lines)
        ELSE (CHOOSE i \in hits : \A m \in hits : i <= m) + 1

\* ASTAnalyzer._guess_end_line
GuessEndLine(item, lines) ==
    LET start == item.line_number - 1
        base_indent == lines[start + 1].indent
        \* 0-based indexes i of range(start + 1, len(lines)) that return
        hits == {i \in (start + 1)..(Len(lines) - 1) :
                    ~IsBlank(lines[i + 1]) /\ lines[i + 1].indent <= base_indent}
    IN  IF start >= Len(lines) THEN item.line_number
        ELSE IF hits = {} THEN Len(lines)
        ELSE CHOOSE i \in hits : \A m \in hits : i <= m

\* ASTAnalyzer._fallback_end_lines: the recursion visits every item of the tree
FallbackEndLines(nodes, lines) ==
    [id \in 1..Len(nodes) |->
        LET item == nodes[id]
        IN  IF item.end_line # NoneLine THEN item
            ELSE IF item.item_type \in {"property", "variable", "constant"}
            THEN [item EXCEPT !.end_line = item.line_number]
            ELSE [item EXCEPT !.end_line = GuessEndLine(item, lines)]]

\* ASTAnalyzer.enhance_items_with_ast, when ast.parse returns or raises
\* SyntaxError: `except SyntaxError` is the only handler
EnhanceItemsWithAst(nodes, lines) ==
    IF SyntaxOk(lines) THEN ProcessAst(nodes, lines)
    ELSE FallbackEndLines(nodes, lines)

\* CodeAnalyzer.analyze_text: [nodes, items, raised], items the root list;
\* raised when the RecursionError of ast.parse leaves the call, which then
\* returns nothing
AnalyzeText(lines) ==
    LET built == AnalyzeLoop(lines, 1, <<>>, <<>>, <<>>)
    IN  IF RaisesRecursionError(lines)
        THEN [nodes |-> <<>>, items |-> <<>>, raised |-> TRUE]
        ELSE [nodes |-> EnhanceItemsWithAst(built.nodes, lines),
              items |-> built.items, raised |-> FALSE]

-----------------------------------------------------------------------------
(* State *)

VARIABLES
    data_texts,         \* bpy.data.texts: buffer name -> its lines
    space_text,         \* context.space_data.text: the open buffer's name, or NoText
    current_line_index, \* text.current_line_index of the open buffer (0-based)
    selection,          \* text.current_character, select_end_line_index and
                        \* select_end_character of the open buffer
    nav_data,           \* CODE_MAP_PG_Properties: search_text and the show_* toggles
    code_items,         \* NavigationState.code_items: the root list (item ids)
    nodes,              \* the CodeItem objects the cached tree is made of
    expanded_items,     \* NavigationState.expanded_items
    current_text_name,  \* NavigationState.current_text_name
    last_text_hash,     \* NavigationState.last_text_hash
    drawn,              \* what the last draw_code_map_ui produced
    space_data,         \* context.space_data: find_text, show_word_wrap, top, visible_lines
    prefs,              \* the add-on preferences highlight_mode and min_str_len
    highlights,         \* what the last draw_highlights produced
    bookmark_settings,  \* text.bookmark_settings of every buffer: bookmark_items
                        \* and bookmark_list_index
    recent_manager,     \* RecentFilesManager: _recent_files and whether
                        \* recent_files_path is set
    open_recent_txt,    \* the lines of open_recent.txt on disk
    recent_files_props, \* wm.recent_files_props.recent_files: the list the UI shows
    max_entries,        \* the add-on preference max_entries
    recent_call         \* the last call made to the RecentFilesManager

vars == <<data_texts, space_text, current_line_index, selection, nav_data,
          code_items, nodes, expanded_items, current_text_name, last_text_hash, drawn,
          space_data, prefs, highlights,
          bookmark_settings, recent_manager, open_recent_txt, recent_files_props,
          max_entries, recent_call>>

hl_vars == <<space_data, prefs, highlights>>

bm_vars == <<bookmark_settings>>

recent_vars == <<recent_manager, open_recent_txt, recent_files_props, max_entries,
                 recent_call>>

tool_vars == <<bm_vars, recent_vars>>

nav_vars == <<code_items, nodes, expanded_items, current_text_name, last_text_hash>>

BufNames == {"A", "B"}

Kinds == {"class", "method", "function", "property", "variable", "constant"}

\* CodeItem.get_full_path: ".".join of the names from the root down
RECURSIVE GetFullPath(_, _)
GetFullPath(ns, id) ==
    IF ns[id].parent = NoItem THEN ns[id].name
    ELSE GetFullPath(ns, ns[id].parent) \o <<".">> \o ns[id].name

-----------------------------------------------------------------------------
(* CodeRenderer *)

\* "no function / no class": the None of _find_active_function / _find_active_class
NoName == <<>>

\* is_visible without its first test: show_classes is not looked at
IsVisibleAnyClass(ns, id, nd) ==
    LET item == ns[id]
    IN  IF item.item_type = "function"
        THEN (IF item.parent # NoItem
                    /\ ns[item.parent].item_type \in {"class", "function"}
              THEN nd.show_methods ELSE nd.show_functions)
        ELSE IF item.item_type = "property" THEN nd.show_properties
        ELSE IF item.item_type = "variable" THEN nd.show_variables
        ELSE IF item.item_type = "constant" THEN nd.show_constants
        ELSE TRUE

\* the closure is_visible of CodeRenderer.filter_items
IsVisible(ns, id, nd) ==
    LET item == ns[id]
    IN  IF item.item_type = "class" /\ ~nd.show_classes THEN FALSE
        ELSE IF item.item_type = "function"
        THEN (IF item.parent # NoItem
                    /\ ns[item.parent].item_type \in {"class", "function"}
              THEN nd.show_methods ELSE nd.show_functions)
        ELSE IF item.item_type = "property" THEN nd.show_properties
        ELSE IF item.item_type = "variable" THEN nd.show_variables
        ELSE IF item.item_type = "constant" THEN nd.show_constants
        ELSE TRUE

\* search_text.lower() in item.name.lower()
NameMatches(ns, id, search_text) == Contains(Lower(ns[id].name), Lower(search_text))

\* CodeRenderer._item_matches_search
RECURSIVE ItemMatchesSearch(_, _, _)
ItemMatchesSearch(ns, id, search_text) ==
    \/ NameMatches(ns, id, search_text)
    \/ \E c \in 1..Len(ns[id].children) :
          ItemMatchesSearch(ns, ns[id].children[c], search_text)

\* the closure filter_recursive of CodeRenderer.filter_items.  new_item is the
\* cached item itself, so the assignment to new_item.children changes the
\* cached object: the result is the list returned and the objects afterwards.
RECURSIVE FilterRecursive(_, _, _, _)
FilterRecursive(ns, ids, search_text, nd) ==
    IF ids = <<>> THEN [nodes |-> ns, result |-> <<>>]
    ELSE
        LET id == Head(ids)
            keep == /\ IsVisible(ns, id, nd)
                    /\ \/ NameMatches(ns, id, search_text)
                       \/ \E c \in 1..Len(ns[id].children) :
                             ItemMatchesSearch(ns, ns[id].children[c], search_text)
            sub == FilterRecursive(ns, ns[id].children, search_text, nd)
            ns1 == IF keep THEN [sub.nodes EXCEPT ![id].children = sub.result] ELSE ns
            rest == FilterRecursive(ns1, Tail(ids), search_text, nd)
        IN  [nodes |-> rest.nodes,
             result |-> IF keep THEN <<id>> \o rest.result ELSE rest.result]

\* CodeRenderer.filter_items
FilterItems(ns, items, search_text, nd) == FilterRecursive(ns, items, search_text, nd)

\* CodeRenderer._flatten_items: the items in pre-order
RECURSIVE FlattenItems(_, _)
FlattenItems(ns, ids) ==
    IF ids = <<>> THEN <<>>
    ELSE <<Head(ids)>> \o FlattenItems(ns, ns[Head(ids)].children)
                       \o FlattenItems(ns, Tail(ids))

\* start <= cursor_line <= (item.end_line or item.line_number)
SpanContains(item, cursor_line) ==
    /\ item.line_number <= cursor_line
    /\ cursor_line <= (IF item.end_line # NoneLine THEN item.end_line
                       ELSE item.line_number)

\* CodeRenderer._find_active_function: (name, line_number) of the first hit
FindActiveFunction(ns, items, cursor_line) ==
    LET flat == FlattenItems(ns, items)
        hits == {k \in 1..Len(flat) :
                    /\ ns[flat[k]].item_type \in {"function", "method"}
                    /\ SpanContains(ns[flat[k]], cursor_line)}
        first == flat[CHOOSE k \in hits : \A m \in hits : k <= m]
    IN  IF hits = {} THEN [name |-> NoName, line_number |-> NoneLine]
        ELSE [name |-> ns[first].name, line_number |-> ns[first].line_number]

\* CodeRenderer._find_active_class: the name of the first hit among the roots
FindActiveClass(ns, items, cursor_line) ==
    LET hits == {k \in 1..Len(items) :
                    /\ ns[items[k]].item_type = "class"
                    /\ SpanContains(ns[items[k]], cursor_line)}
    IN  IF hits = {} THEN NoName
        ELSE ns[items[CHOOSE k \in hits : \A m \in hits : k <= m]].name

\* CodeRenderer.draw_code_item: the item paths of the expand/collapse toggles
\* drawn for the rows of ids (children are drawn only under an expanded item)
RECURSIVE TogglePaths(_, _, _)
TogglePaths(ns, ids, expanded) ==
    IF ids = <<>> THEN {}
    ELSE LET id == Head(ids)
             path == GetFullPath(ns, id)
         IN  (IF ns[id].children # <<>> THEN {path} ELSE {})
             \cup (IF ns[id].children # <<>> /\ path \in expanded
                   THEN TogglePaths(ns, ns[id].children, expanded) ELSE {})
             \cup TogglePaths(ns, Tail(ids), expanded)

\* CodeRenderer.draw_code_item: the properties line_number and item_end_line
\* of the text.jump_to_line operators drawn for the rows of ids
RECURSIVE Rows(_, _, _)
Rows(ns, ids, expanded) ==
    IF ids = <<>> THEN {}
    ELSE LET id == Head(ids)
         IN  {[line_number |-> ns[id].line_number,
               \* item.end_line or 0
               item_end_line |-> IF ns[id].end_line # NoneLine THEN ns[id].end_line ELSE 0]}
             \cup (IF ns[id].children # <<>> /\ GetFullPath(ns, id) \in expanded
                   THEN Rows(ns, ns[id].children, expanded) ELSE {})
             \cup Rows(ns, Tail(ids), expanded)

-----------------------------------------------------------------------------
(* The cursor and the selection of the open buffer *)

\* No selection: the selection ends where the cursor stands, in column 0
Collapsed(line_index) ==
    [current_character |-> 0, select_end_line_index |-> line_index,
     select_end_character |-> 0]

\* stripped: the characters of the line after its leading blanks
Stripped(line) ==
    IF line.form = "class" THEN <<"c", "l", "a", "s", "s", " ">> \o line.name \o <<":">>
    ELSE IF line.form = "def" THEN <<"d", "e", "f", " ">> \o line.name \o <<"(", ")", ":">>
    ELSE IF line.form = "baddef" THEN <<"d", "e", "f", " ">> \o line.name \o <<"(", ":">>
    ELSE IF line.form = "ann" THEN line.name \o <<":", " ", "i", "n", "t">>
    ELSE IF line.form \in {"assign", "deep"}
    THEN line.name \o <<" ", "=", " ">> \o line.value
    ELSE IF line.form = "pass" THEN <<"p", "a", "s", "s">>
    ELSE IF line.form = "comment" THEN <<"#", " ", "c">>
    ELSE IF line.form = "quote" THEN <<"\"", "\"", "\"">>
    ELSE <<>>

\* text.lines[i].body
Body(line) == [i \in 1..line.indent |-> " "] \o Stripped(line)

\* len(stripped)
StrippedLen(line) == Len(Stripped(line))

\* len(text.lines[i].body)
BodyLen(line) == line.indent + StrippedLen(line)

\* bpy.ops.text.jump(line=line_number): the 0-based line the cursor lands on
\* (the last line when the buffer is shorter)
TextJump(lines, line_number) ==
    (IF line_number <= Len(lines) THEN line_number ELSE Len(lines)) - 1

\* text.select_set(line_start, char_start, line_end, char_end): the cursor
\* goes to the start and the selection ends at the end, indexes beyond the
\* buffer or the line being clamped
SelectSet(lines, line_start, char_start, line_end, char_end) ==
    LET ClampLine(l) == IF l < Len(lines) THEN l ELSE Len(lines) - 1
        ClampChar(l, c) == IF c <= BodyLen(lines[ClampLine(l) + 1]) THEN c
                           ELSE BodyLen(lines[ClampLine(l) + 1])
    IN  [current_line_index |-> ClampLine(line_start),
         current_character |-> ClampChar(line_start, char_start),
         select_end_line_index |-> ClampLine(line_end),
         select_end_character |-> ClampChar(line_end, char_end)]

\* start_column taken as 0: the selection starts at the beginning of the line
StartColumnZero(lines, line_number) == 0

\* _select_code_block: start_column, the leading blanks of the start line
StartColumn(lines, line_number) ==
    IF line_number - 1 < Len(lines) THEN GetIndentLevel(lines[line_number])
    ELSE 0

\* _select_code_block: end_line_index, the last line when the buffer is shorter
EndLineIndex(lines, item_end_line) ==
    IF item_end_line - 1 < Len(lines) THEN item_end_line - 1 ELSE Len(lines) - 1

\* _select_code_block: end_column
EndColumn(lines, item_end_line) == BodyLen(lines[EndLineIndex(lines, item_end_line) + 1])

-----------------------------------------------------------------------------
(* Buffers *)

\* class Foo: / def bar(self): / pass / X = 1
Scenario1 ==
    << MkLine(0, "class", <<"F", "o", "o">>),
       MkLine(4, "def", <<"b", "a", "r">>),
       MkLine(8, "pass", <<>>),
       MkLine(0, "assign", <<"X">>) >>

\* class A: / class B: / def f(): / def g(): / pass, each nested in the one before
Nested ==
    << MkLine(0, "class", <<"A">>),
       MkLine(4, "class", <<"B">>),
       MkLine(8, "def", <<"f">>),
       MkLine(12, "def", <<"g">>),
       MkLine(16, "pass", <<>>) >>

\* The contents a buffer of the interactive model can have; the first one is
\* the empty buffer.
Pool == << <<BlankLine>>, Scenario1, Nested >>

PoolSet == {Pool[i] : i \in 1..Len(Pool)}

\* hash(text.as_string()): hash("") is 0, distinct contents have distinct hashes
Hash(lines) ==
    IF lines = <<BlankLine>> THEN 0
    ELSE IF lines \in PoolSet THEN CHOOSE i \in 1..Len(Pool) : Pool[i] = lines
    ELSE Len(Pool) + 1

\* The search strings typed into the search field
SearchTexts == { <<>>, <<"b", "a", "r">>, <<"f">> }

\* How many show_* toggles are switched off at a time
MaxHidden == 1

\* How many paths the expanded set holds at a time
MaxExpanded == 1

-----------------------------------------------------------------------------
(* NavigationState *)

\* needs_update without the content check: only the buffer identity is compared
NeedsUpdateNameOnly ==
    IF space_text = NoText
    THEN (IF current_text_name # ""
          THEN [ret |-> TRUE, current_text_name |-> "",
                last_text_hash |-> last_text_hash, code_items |-> <<>>]
          ELSE [ret |-> FALSE, current_text_name |-> current_text_name,
                last_text_hash |-> last_text_hash, code_items |-> code_items])
    ELSE IF current_text_name # space_text
    THEN [ret |-> TRUE, current_text_name |-> space_text,
          last_text_hash |-> 0, code_items |-> code_items]
    ELSE [ret |-> FALSE, current_text_name |-> current_text_name,
          last_text_hash |-> last_text_hash, code_items |-> code_items]

\* NavigationState.needs_update: the value returned and the fields as it
\* leaves them
NeedsUpdate ==
    IF space_text = NoText
    THEN (IF current_text_name # ""
          THEN [ret |-> TRUE, current_text_name |-> "",
                last_text_hash |-> last_text_hash, code_items |-> <<>>]
          ELSE [ret |-> FALSE, current_text_name |-> current_text_name,
                last_text_hash |-> last_text_hash, code_items |-> code_items])
    ELSE IF current_text_name # space_text
    THEN [ret |-> TRUE, current_text_name |-> space_text,
          last_text_hash |-> 0, code_items |-> code_items]
    ELSE IF last_text_hash # Hash(data_texts[space_text])
    THEN [ret |-> TRUE, current_text_name |-> current_text_name,
          last_text_hash |-> Hash(data_texts[space_text]), code_items |-> code_items]
    ELSE [ret |-> FALSE, current_text_name |-> current_text_name,
          last_text_hash |-> last_text_hash, code_items |-> code_items]

\* toggle_expansion as an accordion: expanding a path collapses the others
ToggleExpansionAccordion(expanded, item_path) ==
    IF item_path \in expanded THEN expanded \ {item_path}
    ELSE {item_path}

\* NavigationState.toggle_expansion
ToggleExpansionSet(expanded, item_path) ==
    IF item_path \in expanded THEN expanded \ {item_path}
    ELSE expanded \cup {item_path}

-----------------------------------------------------------------------------
(* Initial state and actions *)

NotDrawn ==
    [done |-> FALSE, ret |-> FALSE, raised |-> FALSE, label |-> "", items |-> <<>>,
     active_function |-> NoName, active_function_line |-> NoneLine,
     active_class |-> NoName, toggle_paths |-> {}, rows |-> {},
     seen_text |-> NoText, seen_lines |-> <<>>, seen_search |-> <<>>]

DefaultNavData ==
    [search_text |-> <<>>, show_classes |-> TRUE, show_methods |-> TRUE,
     show_properties |-> TRUE, show_functions |-> TRUE, show_variables |-> TRUE,
     show_constants |-> TRUE]

-----------------------------------------------------------------------------
(* Highlight occurrences *)

\* "Hard max for match finding"
MatchCap == 1000

\* st.visible_lines: the rows of text the editor region shows
VisibleLines == 1

\* HIGHLIGHT_OCCURRENCES_PG_settings, at its defaults
tho_settings == [show_in_scroll |-> TRUE, case_sensitive |-> FALSE, whole_word |-> FALSE]

\* get_matches(body, substr) is called without a selection range
NoSelr == <<>>

\* re.escape(substr) matches at offset k of body, under re.IGNORECASE unless
\* case_sensitive
OccursAt(body, substr, k) ==
    /\ k + Len(substr) <= Len(body)
    /\ \A i \in 1..Len(substr) :
          IF tho_settings.case_sensitive THEN body[k + i] = substr[i]
          ELSE LowerChar(body[k + i]) = LowerChar(substr[i])

\* re.finditer over the offsets lo..hi-1, the scan standing at offset pos: the
\* leftmost match, then the leftmost match that starts at or after its end, and
\* so on. The range is walked by halves, the left half first, the scan
\* position carried from one half into the next.
RECURSIVE FindIter(_, _, _, _, _)
FindIter(body, substr, lo, hi, pos) ==
    IF hi <= lo THEN [matches |-> <<>>, pos |-> pos]
    ELSE IF hi = lo + 1
    THEN IF lo >= pos /\ OccursAt(body, substr, lo)
         THEN [matches |-> <<lo>>, pos |-> lo + Len(substr)]
         ELSE [matches |-> <<>>, pos |-> pos]
    ELSE LET mid == (lo + hi) \div 2
             left == FindIter(body, substr, lo, mid, pos)
             right == FindIter(body, substr, mid, hi, left.pos)
         IN  [matches |-> left.matches \o right.matches, pos |-> right.pos]

\* get_matches: the start offsets of the matches, those that start or end
\* inside the selection range left out
GetMatches(body, substr, selr) ==
    LET exclude == IF selr = NoSelr THEN {} ELSE selr[1]..(selr[2] - 1)
        Kept(idx) == ~(selr # NoSelr /\ (idx \in exclude \/ idx + Len(substr) \in exclude))
    IN  SelectSeq(FindIter(body, substr, 0, Len(body), 0).matches, Kept)

\* "Generate points for text highlights": the loop over
\* lines[top:top + st.visible_lines + extra] from line idx on, pts the matches
\* that got their points so far. A point is kept as <<line, offset>> of its
\* match; clipping against the borders of the region is Blender's geometry
\* and is not modelled: the region shows every character of these lines.
RECURSIVE PtsLoop(_, _, _, _, _, _, _)
PtsLoop(lines, curl, substr, selr, idx, stop, pts) ==
    IF idx >= stop \/ idx >= Len(lines) THEN pts
    ELSE LET body == Body(lines[idx + 1])
             match_indices == IF idx = curl THEN GetMatches(body, substr, selr)
                              ELSE GetMatches(body, substr, NoSelr)
         IN  IF Len(match_indices) > MatchCap
             THEN \* return pts, scrollpts
                  pts
             ELSE PtsLoop(lines, curl, substr, selr, idx + 1, stop,
                          pts \cup {<<idx, match_indices[j]>> : j \in 1..Len(match_indices)})

\* get_non_wrapped_pts, the text highlights
GetNonWrappedPts(lines, curl, substr, selr, sd) ==
    PtsLoop(lines, curl, substr, selr, sd.top, sd.top + sd.visible_lines + 2, {})

\* get_wrapped_pts, the text highlights
GetWrappedPts(lines, curl, substr, selr, sd) ==
    PtsLoop(lines, curl, substr, selr, sd.top, sd.top + sd.visible_lines + 4, {})

\* scrollpts_get: the lines that get a marker on the scrollbar, and the marker
\* of the selection
ScrollptsGet(lines, curl, substr, selr) ==
    [scrollpts |-> {i \in 0..(Len(lines) - 1) :
                       GetMatches(Body(lines[i + 1]), substr, NoSelr) # <<>>},
     selectedpts |-> IF selr[2] - selr[1] > 0 THEN {curl} ELSE {}]

\* substr.strip() is empty
IsBlankStr(s) == \A i \in 1..Len(s) : s[i] = " "

\* body[slice(*selr)]
Slice(body, selr) ==
    SubSeq(body, selr[1] + 1, IF selr[2] < Len(body) THEN selr[2] ELSE Len(body))

HighlightModes == {"AUTO", "SELECTION", "FIND_TEXT"}

\* Values of min_str_len, its default among them
MinStrLens == {1, 2}

\* What the user types in the find field
FindTexts == { <<>>, <<"a">>, <<"a", "a">> }

\* draw_highlights: the text it searches for
Substr(curl_body, selr, sd, pf) ==
    IF pf.highlight_mode = "AUTO"
    THEN (IF ~IsBlankStr(sd.find_text) THEN sd.find_text ELSE Slice(curl_body, selr))
    ELSE IF pf.highlight_mode = "SELECTION" THEN Slice(curl_body, selr)
    ELSE sd.find_text

\* Nothing is drawn
NoHighlights == [searched |-> FALSE, pts |-> {}, scrollpts |-> {}, selectedpts |-> {}]

\* The defaults of the editor and of the preferences, the view scrolled to the top
InitHighlights ==
    /\ space_data = [find_text |-> <<>>, show_word_wrap |-> FALSE, top |-> 0,
                     visible_lines |-> VisibleLines]
    /\ prefs = [highlight_mode |-> "FIND_TEXT", min_str_len |-> 2]
    /\ highlights = NoHighlights

\* NavigationState.__new__ and the defaults of CODE_MAP_PG_Properties
InitNav ==
    /\ nav_data = DefaultNavData
    /\ code_items = <<>>
    /\ nodes = <<>>
    /\ expanded_items = {}
    /\ current_text_name = ""
    /\ last_text_hash = 0
    /\ drawn = NotDrawn

\* ---------------------------------------------------------------------------
\* Bookmark Line: src/tools/bookmark_line.py
\* ---------------------------------------------------------------------------

\* REFRESH looks for the content of a bookmark from SearchBefore lines before
\* its old line up to (not including) SearchAfter lines after it
SearchBefore == 5

SearchAfter == 6

\* The most bookmarks ADD is let to make
MaxBookmarks == 3

\* BookmarkSettings of a text block nobody has bookmarked yet
NoBookmarks == [bookmark_items |-> <<>>, bookmark_list_index |-> 0]

InitBookmarks == bookmark_settings = [n \in BufNames |-> NoBookmarks]

\* [line.body.strip() for line in text.lines]
StrippedLines(lines) == [i \in 1..Len(lines) |-> Stripped(lines[i])]

SetMin(S) == CHOOSE x \in S : \A y \in S : x <= y

NoJump == -1

\* bookmark_jump, the update callback of bookmark_list_index: the 0-based line
\* text.jump moves the cursor to, NoJump when it does not jump
BookmarkJump(settings, lines) ==
    LET idx == settings.bookmark_list_index
    IN  IF 0 <= idx /\ idx < Len(settings.bookmark_items)
        THEN LET item == settings.bookmark_items[idx + 1]
             IN  IF item.line_index < Len(lines) THEN item.line_index ELSE NoJump
        ELSE NoJump

\* bookmark_items.move(key, pos): nothing moves unless both are positions of
\* the collection
MoveItem(items, key, pos) ==
    IF key >= 0 /\ key < Len(items) /\ pos >= 0 /\ pos < Len(items) /\ key # pos
    THEN LET rest == SubSeq(items, 1, key) \o SubSeq(items, key + 2, Len(items))
         IN  SubSeq(rest, 1, pos) \o <<items[key + 1]>> \o SubSeq(rest, pos + 1, Len(rest))
    ELSE items

\* bookmark_items.remove(index)
RemoveItem(items, index) ==
    SubSeq(items, 1, index) \o SubSeq(items, index + 2, Len(items))

\* REFRESH, lines 132-150: where a bookmark is found again, NoJump if nowhere
RefreshIndex(item, current_lines) ==
    LET old_index == item.line_index
        lo == IF old_index - SearchBefore > 0 THEN old_index - SearchBefore ELSE 0
        hi == IF old_index + SearchAfter < Len(current_lines)
              THEN old_index + SearchAfter ELSE Len(current_lines)
        found == {i \in lo..(hi - 1) : current_lines[i + 1] = item.line_content}
    IN  IF old_index < Len(current_lines)
            /\ current_lines[old_index + 1] = item.line_content
        THEN old_index
        ELSE IF found = {} THEN NoJump ELSE SetMin(found)

\* REFRESH, lines 128-161: the bookmarks after the refresh
RefreshItems(items, lines) ==
    LET current_lines == StrippedLines(lines)
        moved == [k \in 1..Len(items) |->
                    [line_index |-> RefreshIndex(items[k], current_lines),
                     line_content |-> items[k].line_content]]
        updated_items == SelectSeq(moved, LAMBDA b : b.line_index # NoJump)
    IN  IF updated_items # items THEN updated_items ELSE items

\* text_lines.index(content): the first line with that content
FirstIndex(text_lines, content) ==
    SetMin({i \in 0..(Len(text_lines) - 1) : text_lines[i + 1] = content})

\* list.sort(key=lambda pair: pair[0]) is stable: a pair goes behind the pairs
\* with the same line
InsertByLine(sorted, pair) ==
    LET k == Cardinality({j \in 1..Len(sorted) :
                             sorted[j].line_index <= pair.line_index})
    IN  SubSeq(sorted, 1, k) \o <<pair>> \o SubSeq(sorted, k + 1, Len(sorted))

RECURSIVE SortByLine(_)
SortByLine(pairs) ==
    IF pairs = <<>> THEN <<>>
    ELSE InsertByLine(SortByLine(SubSeq(pairs, 1, Len(pairs) - 1)), pairs[Len(pairs)])

\* SORT, lines 164-184: the bookmarks after the sort
SortItems(items, lines) ==
    LET text_lines == StrippedLines(lines)
        present == SelectSeq(items, LAMBDA b :
                      \E i \in 1..Len(text_lines) : text_lines[i] = b.line_content)
        updated_items ==
            SortByLine([k \in 1..Len(present) |->
                          [line_index |-> FirstIndex(text_lines, present[k].line_content),
                           line_content |-> present[k].line_content]])
    IN  IF items # updated_items THEN updated_items ELSE items

\* What every branch of execute ends with: the settings of the open text are
\* stored, and where bookmark_list_index was assigned bookmark_jump runs
StoreBookmarks(settings, index_assigned) ==
    /\ bookmark_settings' = [bookmark_settings EXCEPT ![space_text] = settings]
    /\ LET target == IF index_assigned
                     THEN BookmarkJump(settings, data_texts[space_text])
                     ELSE NoJump
       IN  IF target = NoJump
           THEN UNCHANGED <<current_line_index, selection>>
           ELSE /\ current_line_index' = target
                /\ selection' = Collapsed(target)
    /\ UNCHANGED <<recent_vars, hl_vars, data_texts, space_text, nav_data, nav_vars, drawn>>

\* bookmark_line.manage with action ADD
ManageAdd ==
    /\ space_text # NoText
    /\ LET settings == bookmark_settings[space_text]
           line_index == current_line_index
           content == Stripped(data_texts[space_text][line_index + 1])
           already_bookmarked ==
               \E k \in 1..Len(settings.bookmark_items) :
                  settings.bookmark_items[k].line_index = line_index
           added == Append(settings.bookmark_items,
                           [line_index |-> line_index, line_content |-> content])
       IN  IF already_bookmarked
           THEN StoreBookmarks(settings, FALSE)
           ELSE /\ Len(settings.bookmark_items) < MaxBookmarks
                /\ StoreBookmarks([bookmark_items |-> added,
                                   bookmark_list_index |-> Len(added) - 1], TRUE)

\* bookmark_line.manage with action REMOVE and the operator's index
ManageRemove(index) ==
    /\ space_text # NoText
    /\ LET settings == bookmark_settings[space_text]
       IN  IF index >= 0 /\ index < Len(settings.bookmark_items)
           THEN StoreBookmarks(
                    [bookmark_items |-> RemoveItem(settings.bookmark_items, index),
                     bookmark_list_index |-> IF index - 1 > 0 THEN index - 1 ELSE 0],
                    TRUE)
           ELSE StoreBookmarks(settings, FALSE)

\* bookmark_line.manage with action MOVE_UP
ManageMoveUp ==
    /\ space_text # NoText
    /\ LET settings == bookmark_settings[space_text]
           idx == settings.bookmark_list_index
       IN  IF idx > 0
           THEN StoreBookmarks(
                    [bookmark_items |-> MoveItem(settings.bookmark_items, idx, idx - 1),
                     bookmark_list_index |-> idx - 1], TRUE)
           ELSE StoreBookmarks(settings, FALSE)

\* bookmark_line.manage with action MOVE_DOWN
ManageMoveDown ==
    /\ space_text # NoText
    /\ LET settings == bookmark_settings[space_text]
           idx == settings.bookmark_list_index
       IN  IF idx < Len(settings.bookmark_items) - 1
           THEN StoreBookmarks(
                    [bookmark_items |-> MoveItem(settings.bookmark_items, idx, idx + 1),
                     bookmark_list_index |-> idx + 1], TRUE)
           ELSE StoreBookmarks(settings, FALSE)

\* bookmark_line.manage with action REFRESH
ManageRefresh ==
    /\ space_text # NoText
    /\ LET settings == bookmark_settings[space_text]
       IN  StoreBookmarks(
               [settings EXCEPT !.bookmark_items =
                    RefreshItems(settings.bookmark_items, data_texts[space_text])],
               FALSE)

\* bookmark_line.manage with action SORT
ManageSort ==
    /\ space_text # NoText
    /\ LET settings == bookmark_settings[space_text]
       IN  StoreBookmarks(
               [settings EXCEPT !.bookmark_items =
                    SortItems(settings.bookmark_items, data_texts[space_text])],
               FALSE)

\* The user clicks row i of the bookmark list (template_list sets
\* bookmark_list_index)
SelectBookmark(i) ==
    /\ space_text # NoText
    /\ i >= 0 /\ i < Len(bookmark_settings[space_text].bookmark_items)
    /\ StoreBookmarks([bookmark_settings[space_text] EXCEPT !.bookmark_list_index = i],
                      TRUE)

\* def f(): / pass / def g(): / pass: two lines with the same content
TwoDefs ==
    << MkLine(0, "def", <<"f">>), MkLine(4, "pass", <<>>),
       MkLine(0, "def", <<"g">>), MkLine(4, "pass", <<>>) >>

\* The same buffer after the user deleted f
OneDef == << MkLine(0, "def", <<"g">>), MkLine(4, "pass", <<>>) >>

\* The contents the bookmarked buffer goes through
BookmarkTexts == {TwoDefs, OneDef}

\* The operator's index: its default and the one the panel passes
RemoveIndexes == {-1} \cup {bookmark_settings[n].bookmark_list_index : n \in BufNames}

\* ---------------------------------------------------------------------------
\* Open Recent: src/tools/open_recent.py
\* ---------------------------------------------------------------------------

\* The least value the preference max_entries takes
MaxEntriesMin == 5

\* The files the user opens and saves
Files == {"a", "b", "c", "d", "e", "f"}

\* The paths handed to the manager, as their components: a file of the root
\* directory, written plainly, with a leading "." or through "b/.."
RawPaths == {<<x>> : x \in Files} \cup {<<".", "a">>, <<"b", "..", "a">>}

\* Path(filepath).resolve(): "." is dropped, ".." drops the component before it
RECURSIVE ResolveLoop(_, _)
ResolveLoop(path, acc) ==
    IF path = <<>> THEN acc
    ELSE LET c == Head(path)
         IN  ResolveLoop(Tail(path),
                 IF c = "." THEN acc
                 ELSE IF c = ".."
                 THEN (IF acc = <<>> THEN acc ELSE SubSeq(acc, 1, Len(acc) - 1))
                 ELSE Append(acc, c))

\* str(Path(filepath).resolve())
Resolve(filepath) == ResolveLoop(filepath, <<>>)

\* load_recent_files: the non-blank lines of open_recent.txt, resolved
LoadRecentFiles(txt) ==
    LET kept == SelectSeq(txt, LAMBDA line : line # <<>>)
    IN  [recent_files |-> [i \in 1..Len(kept) |-> Resolve(kept[i])],
         has_path |-> TRUE]

\* _ensure_loaded: the list is read from disk until recent_files_path is set
EnsureLoaded(manager, txt) ==
    IF manager.has_path THEN manager ELSE LoadRecentFiles(txt)

\* list.remove(x): the first x goes
RemoveFirst(list, x) ==
    LET k == SetMin({i \in 1..Len(list) : list[i] = x})
    IN  SubSeq(list, 1, k - 1) \o SubSeq(list, k + 1, Len(list))

TruncateNothing(list, max_len) == list

\* list[:max_len]
Truncate(list, max_len) ==
    IF max_len >= 0
    THEN SubSeq(list, 1, IF max_len < Len(list) THEN max_len ELSE Len(list))
    ELSE SubSeq(list, 1, IF Len(list) + max_len > 0 THEN Len(list) + max_len ELSE 0)

\* The index pairs swap_files is called with: the first two entries either
\* way, an entry with itself, and a pair with an index past the end
SwapPairs == {<<0, 1>>, <<1, 0>>, <<1, 1>>, <<0, MaxEntriesMin>>}

\* No call made yet. A call is kept as its method, its reorder argument,
\* whether its path was tracked and whether the list held max_entries paths
\* when it was made
NoCall == [op |-> "", reorder |-> FALSE, tracked |-> FALSE, full |-> FALSE]

Call(op, reorder, filepath_str) ==
    [op |-> op, reorder |-> reorder,
     tracked |-> \E i \in 1..Len(recent_manager.recent_files) :
                    recent_manager.recent_files[i] = filepath_str,
     full |-> Len(recent_manager.recent_files) = max_entries]

InitRecent ==
    /\ recent_manager = [recent_files |-> <<>>, has_path |-> FALSE]
    /\ open_recent_txt = <<>>
    /\ recent_files_props = <<>>
    /\ max_entries = MaxEntriesMin
    /\ recent_call = NoCall

InitTools == InitBookmarks /\ InitRecent

\* What the manager's methods end with: save_recent_files writes the list to
\* open_recent.txt (after _ensure_loaded), sync_ui_list copies it to the UI list
SaveAndSync(manager, saves, syncs) ==
    LET saved == IF saves THEN EnsureLoaded(manager, open_recent_txt) ELSE manager
    IN  /\ recent_manager' = saved
        /\ open_recent_txt' = IF saves THEN saved.recent_files ELSE open_recent_txt
        /\ recent_files_props' = IF syncs THEN saved.recent_files ELSE recent_files_props
        /\ UNCHANGED <<max_entries, bm_vars, hl_vars, data_texts, space_text,
                       current_line_index, selection, nav_data, nav_vars, drawn>>

\* recent_manager.add_file(filepath, reorder)
AddFile(filepath, reorder) ==
    LET manager == EnsureLoaded(recent_manager, open_recent_txt)
        filepath_str == Resolve(filepath)
        tracked == \E i \in 1..Len(manager.recent_files) :
                      manager.recent_files[i] = filepath_str
        rest == IF tracked THEN RemoveFirst(manager.recent_files, filepath_str)
                ELSE manager.recent_files
        list == Truncate(<<filepath_str>> \o rest, max_entries)
    IN  /\ recent_call' = Call("add_file", reorder, filepath_str)
        /\ IF tracked /\ ~reorder
           THEN SaveAndSync(manager, FALSE, FALSE)
           ELSE SaveAndSync([manager EXCEPT !.recent_files = list], TRUE, TRUE)

\* recent_manager.remove_file(filepath)
RemoveFile(filepath) ==
    LET manager == EnsureLoaded(recent_manager, open_recent_txt)
        filepath_str == Resolve(filepath)
    IN  /\ recent_call' = Call("remove_file", FALSE, filepath_str)
        /\ SaveAndSync([manager EXCEPT !.recent_files =
                           SelectSeq(manager.recent_files,
                                     LAMBDA path : path # filepath_str)],
                       TRUE, TRUE)

\* recent_manager.clear_recent_files(): the list is cleared before anything is
\* loaded
ClearRecentFiles ==
    /\ recent_call' = Call("clear_recent_files", FALSE, <<>>)
    /\ SaveAndSync([recent_manager EXCEPT !.recent_files = <<>>], TRUE, TRUE)

\* recent_manager.swap_files(index1, index2)
SwapFiles(index1, index2) ==
    LET manager == EnsureLoaded(recent_manager, open_recent_txt)
        list == manager.recent_files
    IN  /\ recent_call' = Call("swap_files", FALSE, <<>>)
        /\ IF 0 <= index1 /\ index1 < Len(list) /\ 0 <= index2 /\ index2 < Len(list)
           THEN SaveAndSync([manager EXCEPT !.recent_files =
                                [list EXCEPT ![index1 + 1] = list[index2 + 1],
                                             ![index2 + 1] = list[index1 + 1]]],
                            TRUE, FALSE)
           ELSE SaveAndSync(manager, FALSE, FALSE)

Init ==
    /\ data_texts = [n \in BufNames |-> IF n = "A" THEN Scenario1 ELSE Nested]
    /\ space_text = NoText
    /\ current_line_index = 0
    /\ selection = Collapsed(0)
    /\ InitNav
    /\ InitHighlights
    /\ InitTools

\* The user opens another buffer in the editor
OpenText(name) ==
    /\ name # space_text
    /\ space_text' = name
    /\ current_line_index' = 0
    /\ selection' = Collapsed(0)
    /\ UNCHANGED <<tool_vars, hl_vars, data_texts, nav_data, nav_vars, drawn>>

\* The user closes (unlinks) the open buffer
CloseText ==
    /\ space_text # NoText
    /\ space_text' = NoText
    /\ current_line_index' = 0
    /\ selection' = Collapsed(0)
    /\ UNCHANGED <<tool_vars, hl_vars, data_texts, nav_data, nav_vars, drawn>>

\* The user edits the open buffer
EditText(content) ==
    /\ space_text # NoText
    /\ content # data_texts[space_text]
    /\ data_texts' = [data_texts EXCEPT ![space_text] = content]
    /\ current_line_index' =
          IF current_line_index < Len(content) THEN current_line_index
          ELSE Len(content) - 1
    /\ selection' = Collapsed(current_line_index')
    /\ UNCHANGED <<tool_vars, hl_vars, space_text, nav_data, nav_vars, drawn>>

\* The user moves the cursor to another line of the open buffer
MoveCursor(i) ==
    /\ space_text # NoText
    /\ i # current_line_index \/ selection # Collapsed(i)
    /\ i < Len(data_texts[space_text])
    /\ current_line_index' = i
    /\ selection' = Collapsed(i)
    /\ UNCHANGED <<tool_vars, hl_vars, data_texts, space_text, nav_data, nav_vars, drawn>>

\* The user types in the search field
SetSearch(s) ==
    /\ s # nav_data.search_text
    /\ nav_data' = [nav_data EXCEPT !.search_text = s]
    /\ UNCHANGED <<tool_vars, hl_vars, data_texts, space_text, current_line_index, selection, nav_vars, drawn>>

ShowProp ==
    [class |-> "show_classes", method |-> "show_methods", function |-> "show_functions",
     property |-> "show_properties", variable |-> "show_variables",
     constant |-> "show_constants"]

Hidden(nd) == {k \in Kinds : ~nd[ShowProp[k]]}

\* The user clicks one of the toggles of _draw_toggle_filter_row
ToggleFilter(k) ==
    /\ nav_data' = [nav_data EXCEPT ![ShowProp[k]] = ~@]
    /\ Cardinality(Hidden(nav_data')) <= MaxHidden
    /\ UNCHANGED <<tool_vars, hl_vars, data_texts, space_text, current_line_index, selection, nav_vars, drawn>>

\* CODE_MAP_OT_toggle_item.execute, from a toggle the last draw put on screen
ToggleItem(item_path) ==
    /\ item_path \in drawn.toggle_paths
    /\ expanded_items' = ToggleExpansionSet(expanded_items, item_path)
    /\ Cardinality(expanded_items') <= MaxExpanded
    /\ UNCHANGED <<tool_vars, hl_vars, data_texts, space_text, current_line_index, selection, nav_data, code_items,
                   nodes, current_text_name, last_text_hash, drawn>>

\* The lines of the open buffer, none when no buffer is open
OpenLines == IF space_text = NoText THEN <<>> ELSE data_texts[space_text]

\* CODE_MAP_OT_jump_to_line.execute (a plain click on a row of the last draw)
JumpToLine(row) ==
    /\ row \in drawn.rows
    /\ IF space_text = NoText
       THEN UNCHANGED <<current_line_index, selection>>
       ELSE /\ current_line_index' = TextJump(OpenLines, row.line_number)
            /\ selection' = Collapsed(current_line_index')
    /\ UNCHANGED <<tool_vars, hl_vars, data_texts, space_text, nav_data, nav_vars, drawn>>

\* CODE_MAP_OT_jump_to_line.invoke with Alt held: _select_code_block
SelectCodeBlock(row) ==
    /\ row \in drawn.rows
    /\ IF space_text = NoText
       THEN UNCHANGED <<current_line_index, selection>>
       ELSE LET lines == OpenLines
                line_number == row.line_number
                \* fallback if end_line is not set
                item_end_line == IF row.item_end_line = 0 THEN line_number
                                 ELSE row.item_end_line
                start_line_index == line_number - 1
                start_column == StartColumn(lines, line_number)
                sel == IF line_number = item_end_line
                       THEN SelectSet(lines, start_line_index, start_column,
                                      start_line_index, BodyLen(lines[line_number]))
                       ELSE SelectSet(lines, start_line_index, start_column,
                                      EndLineIndex(lines, item_end_line),
                                      EndColumn(lines, item_end_line))
            IN  IF line_number = item_end_line /\ start_line_index >= Len(lines)
                THEN \* text.lines[start_line_index]: IndexError, after the jump
                     /\ current_line_index' = TextJump(lines, line_number)
                     /\ selection' = Collapsed(current_line_index')
                ELSE /\ current_line_index' = sel.current_line_index
                     /\ selection' =
                           [current_character |-> sel.current_character,
                            select_end_line_index |-> sel.select_end_line_index,
                            select_end_character |-> sel.select_end_character]
    /\ UNCHANGED <<tool_vars, hl_vars, data_texts, space_text, nav_data, nav_vars, drawn>>

\* An update that analyses the text only while nothing is cached
UpdatedTreeKeepingCache ==
    LET nu == NeedsUpdate
    IN  IF nu.ret /\ space_text # NoText /\ nu.code_items = <<>>
        THEN AnalyzeText(data_texts[space_text])
        ELSE [nodes |-> IF nu.code_items = <<>> THEN <<>> ELSE nodes,
              items |-> nu.code_items, raised |-> FALSE]

\* draw_code_map_ui, "Update navigation state if needed": the cached tree the
\* rest of the draw works on
UpdatedTree ==
    LET nu == NeedsUpdate
    IN  IF nu.ret /\ space_text # NoText
        THEN (IF AnalyzeText(data_texts[space_text]).raised
              \* update_code_items is not reached: the cache stays
              THEN [nodes |-> nodes, items |-> nu.code_items, raised |-> TRUE]
              ELSE AnalyzeText(data_texts[space_text]))
        ELSE [nodes |-> IF nu.code_items = <<>> THEN <<>> ELSE nodes,
              items |-> nu.code_items, raised |-> FALSE]

\* CodeRenderer.draw_code_map_ui (CODE_MAP_PT_panel.draw / CODE_MAP_OT_popup.draw).
\* drawn also keeps which buffer, content and search text the draw saw.
Draw ==
    \* tree and f: the one tree and the one filtered list the draw works on
    \E tree \in {UpdatedTree} :
    \E f \in {FilterItems(tree.nodes, tree.items, nav_data.search_text, nav_data)} :
    LET nu == NeedsUpdate
        cursor_line == current_line_index + 1
        af == FindActiveFunction(tree.nodes, tree.items, cursor_line)
        ac == FindActiveClass(tree.nodes, tree.items, cursor_line)
    IN  /\ current_text_name' = nu.current_text_name
        /\ last_text_hash' = nu.last_text_hash
        /\ code_items' = tree.items
        /\ IF space_text = NoText \/ tree.raised
           THEN \* context.space_data.text.current_line_index: AttributeError,
                \* or the exception of analyze_text
                /\ nodes' = tree.nodes
                /\ drawn' = [NotDrawn EXCEPT !.done = TRUE, !.ret = nu.ret,
                                             !.raised = TRUE,
                                             !.seen_text = space_text,
                                             !.seen_lines = OpenLines,
                                             !.seen_search = nav_data.search_text]
           ELSE /\ nodes' = f.nodes
                /\ drawn' =
                      [done |-> TRUE, ret |-> nu.ret, raised |-> FALSE,
                       label |-> IF f.result # <<>> THEN ""
                                 ELSE IF nav_data.search_text # <<>>
                                 THEN "No matches found"
                                 ELSE "No code structure found",
                       items |-> f.result,
                       active_function |-> af.name,
                       active_function_line |-> af.line_number,
                       active_class |-> ac,
                       toggle_paths |-> TogglePaths(f.nodes, f.result, expanded_items),
                       rows |-> Rows(f.nodes, f.result, expanded_items),
                       seen_text |-> space_text, seen_lines |-> OpenLines,
                       seen_search |-> nav_data.search_text]
        /\ UNCHANGED <<tool_vars, hl_vars, data_texts, space_text, current_line_index, selection, nav_data,
                       expanded_items>>

\* The user types in the find field of the editor
SetFindText(s) ==
    /\ s # space_data.find_text
    /\ space_data' = [space_data EXCEPT !.find_text = s]
    /\ UNCHANGED <<tool_vars, data_texts, space_text, current_line_index, selection, nav_data,
                   nav_vars, drawn, prefs, highlights>>

\* The user switches word wrap
ToggleWordWrap ==
    /\ space_data' = [space_data EXCEPT !.show_word_wrap = ~@]
    /\ UNCHANGED <<tool_vars, data_texts, space_text, current_line_index, selection, nav_data,
                   nav_vars, drawn, prefs, highlights>>

\* The user sets "Minimum Search Length" in the preferences
SetMinStrLen(n) ==
    /\ n # prefs.min_str_len
    /\ prefs' = [prefs EXCEPT !.min_str_len = n]
    /\ UNCHANGED <<tool_vars, data_texts, space_text, current_line_index, selection, nav_data,
                   nav_vars, drawn, space_data, highlights>>

\* The user sets "Highlight Mode" in the preferences
SetHighlightMode(m) ==
    /\ m # prefs.highlight_mode
    /\ prefs' = [prefs EXCEPT !.highlight_mode = m]
    /\ UNCHANGED <<tool_vars, data_texts, space_text, current_line_index, selection, nav_data,
                   nav_vars, drawn, space_data, highlights>>

\* sorted((txt.current_character, txt.select_end_character))
Selr ==
    IF selection.current_character <= selection.select_end_character
    THEN <<selection.current_character, selection.select_end_character>>
    ELSE <<selection.select_end_character, selection.current_character>>

\* What draw_highlights draws in the state it is called in
Highlights ==
    IF space_text = NoText THEN NoHighlights
    ELSE LET lines == OpenLines
             selr == Selr
             curl == current_line_index
             substr == Substr(Body(lines[curl + 1]), selr, space_data, prefs)
         IN  IF IsBlankStr(substr)
             THEN \* Nothing to find
                  NoHighlights
             ELSE IF Len(substr) >= prefs.min_str_len
                     /\ curl = selection.select_end_line_index
             THEN LET scroll == IF tho_settings.show_in_scroll
                                THEN ScrollptsGet(lines, curl, substr, selr)
                                ELSE [scrollpts |-> {}, selectedpts |-> {}]
                  IN  [searched |-> TRUE,
                       pts |-> IF space_data.show_word_wrap
                               THEN GetWrappedPts(lines, curl, substr, selr, space_data)
                               ELSE GetNonWrappedPts(lines, curl, substr, selr, space_data),
                       scrollpts |-> scroll.scrollpts,
                       selectedpts |-> scroll.selectedpts]
             ELSE NoHighlights

\* draw_highlights, the draw handler of the text editor
DrawHighlights ==
    /\ highlights' = Highlights
    /\ UNCHANGED <<tool_vars, data_texts, space_text, current_line_index, selection, nav_data,
                   nav_vars, drawn, space_data, prefs>>

Next ==
    \/ \E name \in BufNames : OpenText(name)
    \/ CloseText
    \/ \E content \in PoolSet : EditText(content)
    \/ \E i \in 0..4 : MoveCursor(i)
    \/ \E s \in SearchTexts : SetSearch(s)
    \/ \E k \in Kinds : ToggleFilter(k)
    \/ \E p \in drawn.toggle_paths : ToggleItem(p)
    \/ \E row \in drawn.rows : JumpToLine(row)
    \/ \E row \in drawn.rows : SelectCodeBlock(row)
    \/ Draw
    \/ \E s \in FindTexts : SetFindText(s)
    \/ ToggleWordWrap
    \/ \E n \in MinStrLens : SetMinStrLen(n)
    \/ \E m \in HighlightModes : SetHighlightMode(m)
    \/ DrawHighlights
    \/ ManageAdd
    \/ \E index \in RemoveIndexes : ManageRemove(index)
    \/ ManageMoveUp
    \/ ManageMoveDown
    \/ ManageRefresh
    \/ ManageSort
    \/ \E i \in 0..(MaxBookmarks - 1) : SelectBookmark(i)
    \/ \E filepath \in RawPaths, reorder \in BOOLEAN : AddFile(filepath, reorder)
    \/ \E filepath \in RawPaths : RemoveFile(filepath)
    \/ ClearRecentFiles
    \/ \E pair \in SwapPairs : SwapFiles(pair[1], pair[2])

Spec == Init /\ [][Next]_vars

\* Buffers, redraws and the cache: no filter, search or cursor change
NextCache ==
    \/ \E name \in BufNames : OpenText(name)
    \/ CloseText
    \/ \E content \in PoolSet : EditText(content)
    \/ Draw

SpecCache == Init /\ [][NextCache]_vars

\* Rendering of the two initial buffers: no edit, no close
NextRender ==
    \/ \E name \in BufNames : OpenText(name)
    \/ \E i \in 0..4 : MoveCursor(i)
    \/ \E s \in SearchTexts : SetSearch(s)
    \/ \E k \in Kinds : ToggleFilter(k)
    \/ \E p \in drawn.toggle_paths : ToggleItem(p)
    \/ Draw

SpecRender == Init /\ [][NextRender]_vars

\* Filtering of the two initial buffers: search and toggles, the cursor on
\* the first line and nothing expanded
NextFilter ==
    \/ \E name \in BufNames : OpenText(name)
    \/ \E s \in SearchTexts : SetSearch(s)
    \/ \E k \in Kinds : ToggleFilter(k)
    \/ Draw

SpecFilter == Init /\ [][NextFilter]_vars

\* Expanding and collapsing rows while buffers are switched, edited, closed
\* and redrawn
NextExpand ==
    \/ \E name \in BufNames : OpenText(name)
    \/ CloseText
    \/ \E content \in PoolSet : EditText(content)
    \/ \E p \in drawn.toggle_paths : ToggleItem(p)
    \/ Draw

SpecExpand == Init /\ [][NextExpand]_vars

\* Clicking the rows of the outline: jump and select, while buffers are
\* switched and redrawn and rows are expanded (the rows of the last draw stay
\* on screen until the next one, also when the other buffer is opened)
NextSelect ==
    \/ \E name \in BufNames : OpenText(name)
    \/ \E p \in drawn.toggle_paths : ToggleItem(p)
    \/ \E row \in drawn.rows : JumpToLine(row)
    \/ \E row \in drawn.rows : SelectCodeBlock(row)
    \/ Draw

SpecSelect == Init /\ [][NextSelect]_vars

\* Rebuilds of the two initial buffers with searches, filter toggles and
\* expand/collapse toggles in between, the cursor on the first line
NextReanalyze ==
    \/ \E name \in BufNames : OpenText(name)
    \/ \E s \in SearchTexts : SetSearch(s)
    \/ \E k \in Kinds : ToggleFilter(k)
    \/ \E p \in drawn.toggle_paths : ToggleItem(p)
    \/ Draw

SpecReanalyze == Init /\ [][NextReanalyze]_vars

\* Searching the two initial buffers with every kind shown: the search field
\* and draws
NextSearch ==
    \/ \E name \in BufNames : OpenText(name)
    \/ \E s \in SearchTexts : SetSearch(s)
    \/ Draw

SpecSearch == Init /\ [][NextSearch]_vars

\* Bookmarking buffer A, which holds def f / pass / def g / pass
InitBookmark ==
    /\ data_texts = [n \in BufNames |-> IF n = "A" THEN TwoDefs ELSE <<BlankLine>>]
    /\ space_text = "A"
    /\ current_line_index = 0
    /\ selection = Collapsed(0)
    /\ InitNav
    /\ InitHighlights
    /\ InitTools

\* The bookmark operator, the bookmark list, the cursor and edits of the buffer
NextBookmark ==
    \/ ManageAdd
    \/ \E index \in RemoveIndexes : ManageRemove(index)
    \/ ManageMoveUp
    \/ ManageMoveDown
    \/ ManageRefresh
    \/ ManageSort
    \/ \E i \in 0..(MaxBookmarks - 1) : SelectBookmark(i)
    \/ \E i \in 0..(Len(TwoDefs) - 1) : MoveCursor(i)
    \/ \E content \in BookmarkTexts : EditText(content)

SpecBookmark == InitBookmark /\ [][NextBookmark]_vars

\* The calls made to the RecentFilesManager
NextRecent ==
    \/ \E filepath \in RawPaths, reorder \in BOOLEAN : AddFile(filepath, reorder)
    \/ \E filepath \in RawPaths : RemoveFile(filepath)
    \/ ClearRecentFiles
    \/ \E pair \in SwapPairs : SwapFiles(pair[1], pair[2])

SpecRecent == Init /\ [][NextRecent]_vars

-----------------------------------------------------------------------------
(* analyze_text on every text of at most MaxLines lines *)

Indents == {0, 1, 2}

Alphabet ==
    {BlankLine}
    \cup {MkLine(i, "class", <<"A">>) : i \in Indents}
    \cup {MkLine(i, "def", <<"f">>) : i \in Indents}
    \cup {MkLine(i, "baddef", <<"g">>) : i \in Indents}
    \cup {MkLine(i, "ann", <<"p">>) : i \in Indents}
    \cup {MkLine(i, "assign", <<"x">>) : i \in Indents}
    \cup {MkLine(i, "assign", <<"X">>) : i \in Indents}
    \cup {MkLine(i, "pass", <<>>) : i \in Indents}
    \cup {MkLine(i, "comment", <<>>) : i \in Indents}
    \cup {MkLine(i, "quote", <<>>) : i \in Indents}

Texts == UNION {[1..n -> Alphabet] : n \in 1..MaxLines}

\* CONST_VALUE = "blender"
Scenario2 ==
    << MkAssign(0, <<"C", "O", "N", "S", "T", "_", "V", "A", "L", "U", "E">>,
                <<"\"", "b", "l", "e", "n", "d", "e", "r", "\"">>) >>

\* def broken(:
Broken == << MkLine(0, "baddef", <<"b", "r", "o", "k", "e", "n">>) >>

\* class A: / a docstring whose closing quotes stand in column 0 / def f(): / pass
Docstring ==
    << MkLine(0, "class", <<"A">>),
       MkLine(4, "quote", <<>>),
       MkLine(0, "quote", <<>>),
       MkLine(4, "def", <<"f">>),
       MkLine(8, "pass", <<>>) >>

\* The operands of a sum too deep for the parser
DeepOperands == 3000

\* x = a+a+...+a
Deep ==
    << [indent |-> 0, form |-> "deep", name |-> <<"x">>,
        value |-> [i \in 1..(2 * DeepOperands - 1) |->
                      IF i % 2 = 1 THEN "a" ELSE "+"]] >>

\* Right-hand sides: "aa...a" and 11...1 of n characters between / without the
\* quotes, and a call
ValueLens == {1, 48, 49, 50, 51, 60}
StrLit(n) == <<"\"">> \o [i \in 1..n |-> "a"] \o <<"\"">>
IntLit(n) == [i \in 1..n |-> "1"]
CallValue == <<"f", "o", "o", "(", ")">>
Values == {StrLit(n) : n \in ValueLens} \cup {IntLit(n) : n \in ValueLens}
              \cup {CallValue}

\* One module-level assignment, alone or followed by a line that does not parse
ValueTexts ==
    {<<MkAssign(0, nm, v)>> \o tail :
        nm \in {<<"y">>, <<"Y">>}, v \in Values, tail \in {<<>>, Broken}}

\* Texts longer or wider than the enumerated ones
LongTexts ==
    {Scenario1, Nested, Docstring, Broken, Scenario2, Scenario2 \o Broken,
     Deep, Deep \o Broken}
        \cup ValueTexts

InitAnalyze ==
    /\ \E t \in Texts \cup LongTexts : data_texts = [n \in BufNames |-> IF n = "A" THEN t ELSE <<BlankLine>>]
    /\ space_text = "A"
    /\ current_line_index = 0
    /\ selection = Collapsed(0)
    /\ InitNav
    /\ InitHighlights
    /\ InitTools

\* nav_state.update_code_items(analyzer.analyze_text(text.as_string()))
Analyze ==
    /\ ~drawn.done
    /\ LET tree == AnalyzeText(data_texts[space_text])
       IN  IF tree.raised
           THEN /\ UNCHANGED <<code_items, nodes>>
                /\ drawn' = [drawn EXCEPT !.done = TRUE, !.raised = TRUE]
           ELSE /\ code_items' = tree.items
                /\ nodes' = tree.nodes
                /\ drawn' = [drawn EXCEPT !.done = TRUE]
    /\ UNCHANGED <<tool_vars, hl_vars, data_texts, space_text, current_line_index, selection, nav_data,
                   expanded_items, current_text_name, last_text_hash>>

SpecAnalyze == InitAnalyze /\ [][Analyze]_vars

\* class A: / x = "a...a" with MatchCap letters / the same with one letter more
HighlightLines ==
    {MkLine(0, "class", <<"A">>), MkAssign(0, <<"x">>, StrLit(MatchCap)),
     MkAssign(0, <<"x">>, StrLit(MatchCap + 1))}

HighlightTexts == UNION {[1..n -> HighlightLines] : n \in 1..MaxLines}

InitHighlight ==
    /\ \E t \in HighlightTexts :
          data_texts = [n \in BufNames |-> IF n = "A" THEN t ELSE <<BlankLine>>]
    /\ space_text = "A"
    /\ current_line_index = 0
    /\ selection = Collapsed(0)
    /\ InitNav
    /\ InitHighlights
    /\ InitTools

\* The find field, word wrap, the preferences and the draw handler
NextHighlight ==
    \/ \E s \in FindTexts : SetFindText(s)
    \/ ToggleWordWrap
    \/ \E n \in MinStrLens : SetMinStrLen(n)
    \/ \E m \in HighlightModes : SetHighlightMode(m)
    \/ DrawHighlights

SpecHighlight == InitHighlight /\ [][NextHighlight]_vars

-----------------------------------------------------------------------------
(* Properties *)

\* a is a proper ancestor of d along the parent links
RECURSIVE IsAncestor(_, _, _)
IsAncestor(ns, a, d) ==
    /\ ns[d].parent # NoItem
    /\ (ns[d].parent = a \/ IsAncestor(ns, a, ns[d].parent))

\* The ids of the items of a tree, at every depth
TreeIds(ns, items) ==
    LET flat == FlattenItems(ns, items) IN {flat[k] : k \in 1..Len(flat)}

\* s is strictly ascending by start line
Ascending(ns, ids) ==
    \A k \in 1..(Len(ids) - 1) : ns[ids[k]].line_number < ns[ids[k + 1]].line_number

\* The items of the given kinds whose span contains the cursor line and that
\* have no descendant of these kinds whose span contains it too
Innermost(ns, items, kinds, cursor_line) ==
    LET hits == {id \in TreeIds(ns, items) :
                    ns[id].item_type \in kinds /\ SpanContains(ns[id], cursor_line)}
    IN  {id \in hits : \A d \in hits : ~IsAncestor(ns, id, d)}

\* C1: after analyze_text returns, every node of the outline, at every depth
\* and of every kind, has an end_line that is not None.
C1_EveryEndLineResolved ==
    drawn.done => \A id \in 1..Len(nodes) : nodes[id].end_line # NoneLine

\* C2: the cached tree (the root list and every children list) changes only
\* in a draw whose needs_update returned true; filtering and redraws without
\* a rebuild leave it as it was.
C2_CacheChangedOnlyByRebuild ==
    [][(code_items' # code_items \/ nodes' # nodes) => drawn'.ret]_vars

\* C3: with an empty search string, a draw shows no node, at any depth, of a
\* kind whose show_* toggle is switched off.
C3_HiddenKindNotShown ==
    [][(Draw /\ space_text # NoText /\ nav_data.search_text = <<>>)
         => \A id \in TreeIds(nodes', drawn'.items) :
               nodes'[id].item_type \notin Hidden(nav_data)]_vars

\* C4: the function reported active by a draw is an innermost function or
\* method whose span contains the cursor line, and none is reported when no
\* function or method span contains it.
C4_ActiveFunctionIsInnermost ==
    [][(Draw /\ space_text # NoText)
         => LET t == UpdatedTree
                inner == Innermost(t.nodes, t.items, {"function", "method"},
                                   current_line_index + 1)
            IN  IF inner = {}
                THEN /\ drawn'.active_function = NoName
                     /\ drawn'.active_function_line = NoneLine
                ELSE \E id \in inner :
                        /\ drawn'.active_function = t.nodes[id].name
                        /\ drawn'.active_function_line = t.nodes[id].line_number]_vars

\* C5: the class reported active by a draw is an innermost class, at any
\* nesting depth, whose span contains the cursor line (none when there is none).
C5_ActiveClassIsInnermost ==
    [][(Draw /\ space_text # NoText)
         => LET t == UpdatedTree
                inner == Innermost(t.nodes, t.items, {"class"}, current_line_index + 1)
            IN  IF inner = {} THEN drawn'.active_class = NoName
                ELSE \E id \in inner : drawn'.active_class = t.nodes[id].name]_vars

\* C6: a draw with no buffer open does not raise, shows an empty outline and
\* the empty-state label.
C6_NoBufferDrawsEmptyState ==
    [][(Draw /\ space_text = NoText)
         => /\ ~drawn'.raised
            /\ drawn'.items = <<>>
            /\ drawn'.label \in {"No code structure found", "No matches found"}]_vars

\* C7: needs_update returns true exactly when (a) no buffer is open and the
\* cache holds a buffer identity, (b) the open buffer's name differs from the
\* cached one, or (c) its content hash differs from the cached one; when it
\* returns false the stored identity, hash and root list are left unchanged.
C7_NeedsUpdateExactly ==
    [][Draw =>
         LET a == space_text = NoText /\ current_text_name # ""
             b == space_text # NoText /\ current_text_name # space_text
             c == space_text # NoText
                    /\ last_text_hash # Hash(data_texts[space_text])
         IN  /\ drawn'.ret <=> (a \/ b \/ c)
             /\ ~drawn'.ret =>
                   /\ current_text_name' = current_text_name
                   /\ last_text_hash' = last_text_hash
                   /\ code_items' = code_items]_vars

\* C7 witness: needs_update has returned false for an open buffer whose
\* identity and content hash are the cached ones.
C7_Witness ==
    /\ drawn.done /\ ~drawn.ret /\ ~drawn.raised
    /\ space_text # NoText
    /\ drawn.seen_text = space_text
    /\ current_text_name = space_text
    /\ last_text_hash = Hash(data_texts[space_text])
    /\ code_items # <<>>

\* C8: when the open buffer and its content are the ones the previous
\* needs_update call saw, the call returns false: a switch or an edit forces
\* one rebuild, not two.
C8_OneRebuildPerChange ==
    [][(Draw /\ drawn.done /\ drawn.seen_text = space_text
             /\ drawn.seen_lines = OpenLines)
         => ~drawn'.ret]_vars

\* C9: in the tree analyze_text returns, a descendant's resolved end_line is
\* at most the resolved end_line of each of its ancestors.
C9_EndLineNested ==
    drawn.done =>
        \A n \in 1..Len(nodes), d \in 1..Len(nodes) :
            (IsAncestor(nodes, n, d)
                /\ nodes[n].end_line # NoneLine /\ nodes[d].end_line # NoneLine)
            => nodes[d].end_line <= nodes[n].end_line

\* C10: in the tree analyze_text returns, every node starts on a line before
\* each of its descendants, and the root list and every children list are in
\* strictly ascending start-line order.
C10_StartLinesAscending ==
    drawn.done =>
        /\ \A n \in 1..Len(nodes), d \in 1..Len(nodes) :
              IsAncestor(nodes, n, d) => nodes[n].line_number < nodes[d].line_number
        /\ Ascending(nodes, code_items)
        /\ \A n \in 1..Len(nodes) : Ascending(nodes, nodes[n].children)

\* C10 witness: an analysed text with a node, a child of it and a child of
\* that child.
C10_Witness ==
    /\ drawn.done
    /\ \E n \in 1..Len(nodes), d \in 1..Len(nodes) :
          IsAncestor(nodes, n, d) /\ nodes[d].parent # n

\* The text handed to analyze_text
AnalyzedText == data_texts[space_text]

\* The line of the class / def statement whose body encloses line i in the
\* parsed text: the nearest one before i whose block reaches line i; 0 at
\* module level
EnclosingLine(lines, i) ==
    LET around == {j \in 1..(i - 1) :
                      /\ IsStmt(lines, j) /\ lines[j].form \in {"class", "def"}
                      /\ i <= EndLineno(lines, j)}
    IN  IF around = {} THEN 0 ELSE CHOOSE j \in around : \A m \in around : m <= j

\* C11: every line that introduces a class or a function yields exactly one
\* node starting on that line, and the node's parent is the class or function
\* whose body encloses the line (no parent at module level).
C11_HeaderNodeUnderEncloser ==
    (drawn.done /\ Parses(AnalyzedText)) =>
        \A i \in 1..Len(AnalyzedText) :
            (IsStmt(AnalyzedText, i) /\ AnalyzedText[i].form \in {"class", "def"})
            => /\ Cardinality({id \in 1..Len(nodes) : nodes[id].line_number = i}) = 1
               /\ \A id \in 1..Len(nodes) :
                     nodes[id].line_number = i
                     => LET enc == EnclosingLine(AnalyzedText, i)
                        IN  IF enc = 0 THEN nodes[id].parent = NoItem
                            ELSE /\ nodes[id].parent # NoItem
                                 /\ nodes[nodes[id].parent].line_number = enc

\* C12: for a text that fails to parse, analyze_text does not raise, every
\* `def <name>(` line has a function or method node of that name from the
\* pattern pass, and every node has an end_line that is not None.
C12_FallbackOnParseFailure ==
    (drawn.done /\ ~Parses(AnalyzedText)) =>
        /\ ~drawn.raised
        /\ \A i \in 1..Len(AnalyzedText) :
              AnalyzedText[i].form \in {"def", "baddef"}
              => \E id \in 1..Len(nodes) :
                    /\ nodes[id].line_number = i
                    /\ nodes[id].name = AnalyzedText[i].name
                    /\ nodes[id].item_type \in {"function", "method"}
        /\ \A id \in 1..Len(nodes) : nodes[id].end_line # NoneLine

\* C13: the value_preview of a variable or constant node is the text after
\* the `=` of its line, verbatim (right-hand sides of at most 50 characters,
\* which are not truncated); `CONST_VALUE = "blender"` yields one constant
\* node CONST_VALUE whose preview is "blender" with its quotes.
C13_PreviewVerbatim ==
    (drawn.done /\ ~drawn.raised) =>
        /\ \A id \in 1..Len(nodes) :
              (/\ nodes[id].item_type \in {"variable", "constant"}
               /\ Len(AnalyzedText[nodes[id].line_number].value) <= PreviewLen)
              => nodes[id].value_preview = AnalyzedText[nodes[id].line_number].value
        /\ AnalyzedText = Scenario2 =>
              /\ Len(nodes) = 1
              /\ nodes[1].item_type = "constant"
              /\ nodes[1].name = Scenario2[1].name
              /\ nodes[1].value_preview = Scenario2[1].value

\* The outline of Scenario1 as the scenario lists it, X being of kind xkind
Scenario1Outline(xkind) ==
    /\ Len(nodes) = 3
    /\ code_items = <<1, 3>>
    /\ nodes[1].name = <<"F", "o", "o">> /\ nodes[1].item_type = "class"
    /\ nodes[1].line_number = 1 /\ nodes[1].end_line = 3
    /\ nodes[1].parent = NoItem /\ nodes[1].children = <<2>>
    /\ nodes[2].name = <<"b", "a", "r">> /\ nodes[2].item_type = "method"
    /\ nodes[2].line_number = 2 /\ nodes[2].end_line = 3
    /\ nodes[2].parent = 1 /\ nodes[2].children = <<>>
    /\ nodes[3].name = <<"X">> /\ nodes[3].item_type = xkind
    /\ nodes[3].line_number = 4 /\ nodes[3].end_line = 4
    /\ nodes[3].parent = NoItem /\ nodes[3].children = <<>>

\* A module-level assignment (column 0, outside any string) that follows a
\* class has one node, a root, whose end_line is its start line
AssignmentAfterClassIsRoot ==
    \A i \in 1..Len(AnalyzedText) :
        (/\ AnalyzedText[i].form = "assign" /\ AnalyzedText[i].indent = 0
         /\ IsStmt(AnalyzedText, i)
         /\ \E j \in 1..(i - 1) :
               AnalyzedText[j].form = "class" /\ IsStmt(AnalyzedText, j))
        => \E id \in 1..Len(nodes) :
              /\ nodes[id].line_number = i
              /\ \A other \in 1..Len(nodes) : nodes[other].line_number = i => other = id
              /\ nodes[id].parent = NoItem
              /\ \E k \in 1..Len(code_items) : code_items[k] = id
              /\ nodes[id].end_line = i

\* C14 as stated: the four-line input yields root = [Foo(class, 1..3),
\* X(variable, 4..4)] with Foo.children = [bar(method, 2..3)], and a
\* module-level assignment after a class body is a root with end_line equal
\* to its start line.
C14_ScenarioWithVariable ==
    (drawn.done /\ ~drawn.raised) =>
        /\ AnalyzedText = Scenario1 => Scenario1Outline("variable")
        /\ AssignmentAfterClassIsRoot

\* C14, amended: the four-line input yields root = [Foo(class, 1..3),
\* X(constant, 4..4)] with Foo.children = [bar(method, 2..3)] (an all-uppercase
\* name is a constant), and a module-level assignment after a class body is a
\* root with end_line equal to its start line.
C14_ScenarioWithConstant ==
    (drawn.done /\ ~drawn.raised) =>
        /\ AnalyzedText = Scenario1 => Scenario1Outline("constant")
        /\ AssignmentAfterClassIsRoot

\* C14 witness: the four-line input has been analysed.
C14_Witness ==
    /\ drawn.done /\ ~drawn.raised
    /\ AnalyzedText = Scenario1
    /\ Len(nodes) = 3

\* The preview ends with the marker "..."
EndsWithEllipsis(preview) ==
    Len(preview) >= 3 /\ SubSeq(preview, Len(preview) - 2, Len(preview)) = Ellipsis

\* The characters of the preview that come from the right-hand side
PreviewBodyLen(preview) ==
    IF EndsWithEllipsis(preview) THEN Len(preview) - 3 ELSE Len(preview)

\* C20: a value_preview that is present holds at most 50 characters of the
\* right-hand side and ends with "..." exactly when the right-hand side is
\* longer than 50 characters and was cut at 50, on the parse path and on the
\* fallback path alike.
C20_PreviewCappedWithEllipsis ==
    (drawn.done /\ ~drawn.raised) =>
        \A id \in 1..Len(nodes) :
            nodes[id].value_preview # NoPreview
            => LET preview == nodes[id].value_preview
                   rhs == AnalyzedText[nodes[id].line_number].value
               IN  /\ PreviewBodyLen(preview) <= PreviewLen
                   /\ EndsWithEllipsis(preview)
                        <=> (Len(rhs) > PreviewLen /\ PreviewBodyLen(preview) = PreviewLen)

\* The show_* toggle of the item's own kind is on
KindEnabled(ns, id, nd) == nd[ShowProp[ns[id].item_type]]

\* The items below an item of the tree handed to filter_items, by its lists
\* of children
DescendantIds(ns, id) == TreeIds(ns, ns[id].children)

\* search_text is a case-insensitive substring of the name of the item or of
\* one of its descendants
MatchesOwnOrDescendant(ns, id, search_text) ==
    \/ NameMatches(ns, id, search_text)
    \/ \E d \in DescendantIds(ns, id) : NameMatches(ns, d, search_text)

\* C15: a node of the outline appears in the output of filter_items exactly
\* when the toggle of its own kind and those of the kinds of all its ancestors
\* are on and the search string is a case-insensitive substring of its own
\* name or of a descendant's name.
C15_ShownIffEnabledAndMatching ==
    [][(Draw /\ space_text # NoText)
         => LET t == UpdatedTree
            IN  \A id \in TreeIds(t.nodes, t.items) :
                   id \in TreeIds(nodes', drawn'.items)
                   <=> /\ KindEnabled(t.nodes, id, nav_data)
                       /\ \A a \in TreeIds(t.nodes, t.items) :
                             id \in DescendantIds(t.nodes, a)
                             => KindEnabled(t.nodes, a, nav_data)
                       /\ MatchesOwnOrDescendant(t.nodes, id, nav_data.search_text)]_vars

\* C16: a draw with the class toggle off shows no class node and no
\* descendant of a class node, neither under it nor anywhere else in the
\* output.
C16_HiddenClassHidesSubtree ==
    [][(Draw /\ space_text # NoText /\ ~nav_data.show_classes)
         => LET t == UpdatedTree
                shown == TreeIds(nodes', drawn'.items)
            IN  \A id \in shown :
                   /\ nodes'[id].item_type # "class"
                   /\ \A c \in 1..Len(t.nodes) :
                         t.nodes[c].item_type = "class"
                         => /\ ~IsAncestor(t.nodes, c, id)
                            /\ id \notin DescendantIds(t.nodes, c)]_vars

\* C16 witness: buffer A (class Foo with its method bar, then X) has been
\* drawn with the class toggle off, and X alone is shown.
C16_Witness ==
    /\ drawn.done /\ ~drawn.raised
    /\ ~nav_data.show_classes
    /\ space_text = "A" /\ drawn.seen_text = "A"
    /\ Len(nodes) = 3
    /\ nodes[1].item_type = "class" /\ nodes[1].children = <<2>>
    /\ drawn.items = <<3>>

RowInBuffer(row) ==
    /\ space_text # NoText
    /\ row.item_end_line # 0
    /\ row.line_number <= row.item_end_line
    /\ row.item_end_line <= Len(OpenLines)

\* The cursor and selection "select block" is to produce for the row: from
\* (line s, column of the first character that is no blank) through (line e,
\* end of the line)
BlockSelection(row) ==
    [current_character |-> OpenLines[row.line_number].indent,
     select_end_line_index |-> row.item_end_line - 1,
     select_end_character |-> BodyLen(OpenLines[row.item_end_line])]

\* C18: for a row whose node spans lines s..e of the open buffer, "jump" puts
\* the cursor on line s and "select block" selects from (line s, column of
\* the first non-whitespace character) through (line e, end of line); done
\* again in the state they produced, both change nothing.
C18_JumpAndSelectBlock ==
    [][\A row \in drawn.rows :
          RowInBuffer(row) =>
            /\ JumpToLine(row) =>
                  /\ current_line_index' = row.line_number - 1
                  /\ (/\ current_line_index = row.line_number - 1
                       /\ selection = Collapsed(row.line_number - 1))
                     => UNCHANGED vars
            /\ SelectCodeBlock(row) =>
                  /\ current_line_index' = row.line_number - 1
                  /\ selection' = BlockSelection(row)
                  /\ (/\ current_line_index = row.line_number - 1
                       /\ selection = BlockSelection(row))
                     => UNCHANGED vars]_vars

\* C18 witness: the block of an indented node of several lines is selected:
\* the selection starts after the leading blanks of the cursor line and ends
\* at the end of a later line.
C18_Witness ==
    /\ space_text # NoText
    /\ \E row \in drawn.rows :
          /\ RowInBuffer(row)
          /\ row.line_number < row.item_end_line
          /\ current_line_index = row.line_number - 1
          /\ selection = BlockSelection(row)
          /\ selection.current_character > 0

\* The lines the loop over the visible lines ranges over
VisibleRange ==
    {i \in 0..(Len(OpenLines) - 1) :
        /\ i >= space_data.top
        /\ i < space_data.top + space_data.visible_lines
                 + (IF space_data.show_word_wrap THEN 4 ELSE 2)}

\* The matches of line i for the text draw_highlights searches for
LineMatches(i) ==
    LET m == GetMatches(Body(OpenLines[i + 1]),
                        Substr(Body(OpenLines[current_line_index + 1]), Selr,
                               space_data, prefs),
                        IF i = current_line_index THEN Selr ELSE NoSelr)
    IN  {m[j] : j \in 1..Len(m)}

\* C19: when draw_highlights searches, every line of the visible range with more
\* than MatchCap matches gets no highlight point, and every line of the visible
\* range with at most MatchCap matches gets a point for each of its matches.
C19_CapPerLine ==
    [][DrawHighlights /\ highlights'.searched
          => \A i \in VisibleRange :
                IF Cardinality(LineMatches(i)) > MatchCap
                THEN \A pt \in highlights'.pts : pt[1] # i
                ELSE \A k \in LineMatches(i) : <<i, k>> \in highlights'.pts]_vars

StillOpenAt(i, j) ==
    /\ nodes[i].item_type \in {"class", "function", "method"}
    /\ nodes[i].line_number < nodes[j].line_number
    /\ nodes[i].indent_level < nodes[j].indent_level
    /\ \A k \in 1..Len(nodes) :
          (nodes[i].line_number < nodes[k].line_number
             /\ nodes[k].line_number < nodes[j].line_number)
          => nodes[k].indent_level > nodes[i].indent_level

\* C22: only classified lines drive the stack: a node that is indented deeper
\* than a class, function or method still open at its line is the child of the
\* innermost such node, whatever the indentation of the unclassified lines in
\* between.
C22_OnlyClassifiedLinesDriveStack ==
    (drawn.done /\ ~drawn.raised) =>
        \A j \in 1..Len(nodes) :
            \A i \in 1..Len(nodes) :
                (StillOpenAt(i, j)
                   /\ \A m \in 1..Len(nodes) :
                         StillOpenAt(m, j) => nodes[m].line_number <= nodes[i].line_number)
                => nodes[j].parent = i

\* The node on top of the indentation stack when line i is classified: the
\* last class, function or method node before line i that is indented less
\* than line i and than every non-blank, non-comment line in between; NoItem
\* when the stack is empty
StackTopAt(lines, i) ==
    LET open == {k \in 1..Len(nodes) :
                    /\ nodes[k].item_type \in {"class", "function", "method"}
                    /\ nodes[k].line_number < i
                    /\ \A m \in (nodes[k].line_number + 1)..i :
                          (~IsBlank(lines[m]) /\ ~IsComment(lines[m]))
                          => GetIndentLevel(lines[m]) > nodes[k].indent_level}
    IN  IF open = {} THEN NoItem
        ELSE CHOOSE k \in open :
                \A m \in open : nodes[m].line_number <= nodes[k].line_number

\* C23: a `def` line has one node, of kind method exactly when the top of the
\* indentation stack at that line is a class or a function, and of kind
\* function otherwise (empty stack, or a method on top); every node of kind
\* method has a parent of kind class or function.
C23_MethodIffUnderClassOrFunction ==
    (drawn.done /\ ~drawn.raised) =>
        /\ \A i \in 1..Len(AnalyzedText) :
              FunctionPatternMatches(AnalyzedText[i])
              => LET top == StackTopAt(AnalyzedText, i)
                     under == top # NoItem /\ nodes[top].item_type \in {"class", "function"}
                 IN  /\ Cardinality({id \in 1..Len(nodes) : nodes[id].line_number = i}) = 1
                     /\ \A id \in 1..Len(nodes) :
                           nodes[id].line_number = i
                           => /\ nodes[id].item_type = (IF under THEN "method" ELSE "function")
                              /\ nodes[id].parent = top
        /\ \A id \in 1..Len(nodes) :
              nodes[id].item_type = "method"
              => /\ nodes[id].parent # NoItem
                 /\ nodes[nodes[id].parent].item_type \in {"class", "function"}

\* C23 witness: the text Nested is analysed: f, under the class B, is a method
\* and g, under the method f, is a function.
C23_Witness ==
    /\ drawn.done /\ ~drawn.raised
    /\ AnalyzedText = Nested
    /\ \E f, g \in 1..Len(nodes) :
          /\ nodes[f].name = <<"f">> /\ nodes[f].item_type = "method"
          /\ nodes[nodes[f].parent].item_type = "class"
          /\ nodes[g].name = <<"g">> /\ nodes[g].item_type = "function"
          /\ nodes[g].parent = f

\* C24: in the tree analyze_text returns, a variable or constant node is a root
\* (no parent, classified with an empty stack) and has no children; the name
\* of a constant is all-uppercase and that of a variable is not; a property
\* node has no children.
C24_LeafKinds ==
    (drawn.done /\ ~drawn.raised) =>
        \A id \in 1..Len(nodes) :
            /\ nodes[id].item_type \in {"variable", "constant"}
                  => /\ nodes[id].parent = NoItem
                     /\ \E k \in 1..Len(code_items) : code_items[k] = id
                     /\ StackTopAt(AnalyzedText, nodes[id].line_number) = NoItem
                     /\ nodes[id].children = <<>>
                     /\ \A c \in 1..Len(nodes) : nodes[c].parent # id
            /\ nodes[id].item_type = "constant" => IsUpper(nodes[id].name)
            /\ nodes[id].item_type = "variable" => ~IsUpper(nodes[id].name)
            /\ nodes[id].item_type = "property"
                  => /\ nodes[id].children = <<>>
                     /\ \A c \in 1..Len(nodes) : nodes[c].parent # id

\* C24 witness: an analysed text with a constant, a variable and a property,
\* each followed by a node that is indented deeper.
C24_Witness ==
    /\ drawn.done /\ ~drawn.raised
    /\ \E k \in {"variable", "constant", "property"} :
          \E id, nxt \in 1..Len(nodes) :
             /\ nodes[id].item_type = k
             /\ nodes[nxt].line_number = nodes[id].line_number + 1
             /\ nodes[nxt].indent_level > nodes[id].indent_level

\* C25: on the fallback path (the text is rejected with a SyntaxError) a class,
\* function or method node declared on line s with indentation d ends on the
\* line before the first non-blank line after s indented at most d, hence not
\* before s, and on the last line of the buffer when there is no such line; a
\* property, variable or constant node ends on its start line.
C25_FallbackEndLine ==
    (drawn.done /\ ~drawn.raised /\ ~SyntaxOk(AnalyzedText)) =>
        \A id \in 1..Len(nodes) :
            LET s == nodes[id].line_number
                d == nodes[id].indent_level
                closing == {m \in (s + 1)..Len(AnalyzedText) :
                               /\ ~IsBlank(AnalyzedText[m])
                               /\ GetIndentLevel(AnalyzedText[m]) <= d}
            IN  IF nodes[id].item_type \in {"class", "function", "method"}
                THEN /\ nodes[id].end_line >= s
                     /\ IF closing = {} THEN nodes[id].end_line = Len(AnalyzedText)
                        ELSE /\ nodes[id].end_line + 1 \in closing
                             /\ \A m \in closing : nodes[id].end_line + 1 <= m
                ELSE nodes[id].end_line = s

\* C25 witness: a text that is rejected has been analysed, with a class,
\* function or method node of more than one line that ends before the end of
\* the buffer, and a property, variable or constant node.
C25_Witness ==
    /\ drawn.done /\ ~drawn.raised /\ ~SyntaxOk(AnalyzedText)
    /\ \E id \in 1..Len(nodes) :
          /\ nodes[id].item_type \in {"class", "function", "method"}
          /\ nodes[id].line_number < nodes[id].end_line
          /\ nodes[id].end_line < Len(AnalyzedText)
    /\ \E id \in 1..Len(nodes) :
          nodes[id].item_type \in {"property", "variable", "constant"}

\* C26: a draw with an empty search string and every kind shown, which does
\* not rebuild and follows a draw of the same unchanged buffer with a non-empty
\* search string, shows every node of the tree analyze_text yields for the
\* buffer.
C26_ClearedSearchShowsAll ==
    [][(/\ Draw
        /\ space_text # NoText /\ ~NeedsUpdate.ret
        /\ drawn.done /\ ~drawn.raised
        /\ drawn.seen_text = space_text /\ drawn.seen_lines = OpenLines
        /\ drawn.seen_search # <<>>
        /\ nav_data.search_text = <<>> /\ Hidden(nav_data) = {})
         => LET fresh == AnalyzeText(OpenLines)
                shown == TreeIds(nodes', drawn'.items)
            IN  \A n \in 1..Len(fresh.nodes) :
                   \E id \in shown :
                      /\ nodes'[id].line_number = fresh.nodes[n].line_number
                      /\ nodes'[id].name = fresh.nodes[n].name
                      /\ nodes'[id].item_type = fresh.nodes[n].item_type]_vars

\* C27: whenever needs_update returns false with a buffer open, the cache is
\* the outline of that buffer: the cached name is the buffer's name and the
\* cached tree is the tree analyze_text yields for the buffer's current
\* content, so that no switch and no edit is missed.
C27_NoChangeMissed ==
    [][(Draw /\ space_text # NoText /\ ~NeedsUpdate.ret)
         => LET fresh == AnalyzeText(OpenLines)
            IN  /\ current_text_name' = space_text
                /\ code_items' = fresh.items
                /\ nodes' = fresh.nodes]_vars

\* C28: no two bookmarks of a text block have the same line_index.
C28_DistinctLines ==
    \A n \in BufNames :
       LET items == bookmark_settings[n].bookmark_items
       IN  \A i, j \in 1..Len(items) :
              items[i].line_index = items[j].line_index => i = j

\* C29: whenever the bookmark list of a text block is non-empty, its selected
\* index satisfies 0 <= bookmark_list_index < len(bookmark_items).
C29_SelectedInRange ==
    \A n \in BufNames :
       LET settings == bookmark_settings[n]
       IN  settings.bookmark_items # <<>>
              => /\ 0 <= settings.bookmark_list_index
                 /\ settings.bookmark_list_index < Len(settings.bookmark_items)

\* The paths of the list
Tracked(list) == {list[i] : i \in 1..Len(list)}

\* C30: the recent-files list never holds a path twice nor more than
\* max_entries paths; add_file(path, reorder=True) leaves the (resolved) path
\* at index 0, and add_file(path, reorder=False) on a tracked path leaves the
\* list unchanged.
C30_RecentList ==
    /\ [](LET list == recent_manager.recent_files
          IN  /\ \A i, j \in 1..Len(list) : list[i] = list[j] => i = j
              /\ Len(list) <= max_entries)
    /\ [][\A filepath \in RawPaths :
            /\ AddFile(filepath, TRUE)
                  => /\ recent_manager'.recent_files # <<>>
                     /\ recent_manager'.recent_files[1] = Resolve(filepath)
            /\ (AddFile(filepath, FALSE)
                   /\ Resolve(filepath) \in Tracked(recent_manager.recent_files))
                  => recent_manager'.recent_files = recent_manager.recent_files]_vars

\* C30 witness: add_file with reorder has put a path that was not tracked in
\* front of a list that held max_entries paths: the list still holds
\* max_entries paths, the file and the UI list hold the same.
C30_Witness ==
    LET list == recent_manager.recent_files
    IN  /\ recent_call = [op |-> "add_file", reorder |-> TRUE, tracked |-> FALSE,
                          full |-> TRUE]
        /\ Len(list) = max_entries
        /\ list[1] = <<"a">>
        /\ open_recent_txt = list /\ recent_files_props = list

====
